---- MODULE Spec2Model ----
(***************************************************************************)
(* A model of the galaxy node agent:                                       *)
(*   - the request dispatcher of pkg/galaxy/server.go (ADD / DEL and the   *)
(*     port-mapping sequencing), one goroutine per connection, and         *)
(*   - the VLAN driver (package vlan): Init with its address migration,    *)
(*     CreateBridgeAndVlanDevice, MaybeCreateVlanDevice and their helpers. *)
(* The kernel (netlink), the backend delegate, the port parser, the        *)
(* port-mapping store and the mapping installer are the environment: the   *)
(* kernel is a table of links and routes, and every mutating call of the   *)
(* environment may fail.  A step of the model is one call of the           *)
(* environment together with the local code that leads to it: requests and *)
(* driver operations of different goroutines interleave between calls.     *)
(***************************************************************************)
EXTENDS Integers, Sequences, FiniteSets, TLC

VARIABLES
    saved,        \* port-mapping store: container ID -> persisted port spec
    installed,    \* installer state: container ID -> set of installed mappings
    conn,         \* the connections served: the request in hand, position and locals
    expect,       \* history: the container's most recent successful ADD carried a
                  \* non-empty port spec and a valid IPv4, and no DEL consumed since
    consumed,     \* history: 0, then 1 once a DEL consumed the container's entry, 2 once
                  \* a further DEL looked for it; back to 0 when an ADD saves an entry
    conf,         \* the driver's NetConf, as LoadConf leaves it
    drv,          \* the driver's vlanParentIndex and DeviceIndex
    kern,         \* the kernel: links (index = position) and routes
    build,        \* TRUE when the build gives every loop iteration its own variable
    mutex,        \* holder of the driver's sync.Mutex (0 = unlocked)
    proc          \* the callers of the driver: operation, position and locals

srvVars == <<saved, installed, conn, expect, consumed>>
vars == <<saved, installed, conn, expect, consumed, conf, drv, kern, build, mutex, proc>>

(***************************************************************************)
(* Bounds of the model.                                                    *)
(***************************************************************************)
MaxFaults == 2      \* environment failures injected into one operation of the driver
MaxAddrs == 2       \* non-loopback addresses on the configured device
MaxRoutes == 2      \* routes through the configured device
NumProcs == 2       \* concurrent callers of the driver
NumConns == 2       \* connections served concurrently

(***************************************************************************)
(* Errors.  Go's nil error is the empty string.                            *)
(***************************************************************************)
Nil == ""
EEXIST == "file exists"
EIO == "input/output error"
ENODEV == "Link not found"
EOPNOTSUPP == "operation not supported"
EINVAL == "invalid argument"

\* fmt.Sprintf("%s%d", prefix, n)
Sprintf(prefix, n) == prefix \o ToString(n)

\* strings.Contains(err.Error(), "file exists")
ContainsFileExists(err) == err = EEXIST


(***************************************************************************)
(* Request dispatcher (pkg/galaxy/server.go).  http.Serve runs the handler *)
(* of each connection in a goroutine of its own and requestFunc takes no   *)
(* lock: conn[c] is the request connection c is handling, the place the    *)
(* handler has reached (pc) and its locals.                                *)
(***************************************************************************)
ContainerIDs == {"c1"}
COMMAND_ADD == "ADD"
COMMAND_DEL == "DEL"
Commands == {COMMAND_ADD, COMMAND_DEL, "VERSION"}
\* port specs a request may carry: empty, well-formed, malformed
PortSpecs == {"", "8080:80/tcp", "bogus"}
\* the delegate's result: a nil result, one without IP4, one whose IP4 is not
\* an IPv4 address, and one with a usable IPv4
NilResult == "<nil>"
NoIP4 == "<no IP4>"
DelegateResults == {NilResult, NoIP4, "fe80::1", "10.1.2.3"}
NoEntry == "<absent>"
ENOENT == "no such file or directory"
Conns == 1..NumConns

\* k8s.ParsePorts: the port spec as a set of mappings with the pod IP unset
ParsePorts(portStr) ==
    CASE portStr = "" -> [ports |-> {}, err |-> Nil]
      [] portStr = "8080:80/tcp" ->
            [ports |-> {[HostPort |-> 8080, ContainerPort |-> 80, Protocol |-> "tcp", PodIP |-> ""]},
             err |-> Nil]
      [] OTHER -> [ports |-> {}, err |-> "invalid port spec"]

\* k8s.SavePort: save(containerID, spec); st is the store, fail the
\* environment's choice to make the call fail
SavePort(st, containerID, portStr, fail) ==
    IF fail
    THEN [saved |-> st, err |-> EIO]
    ELSE [saved |-> [st EXCEPT ![containerID] = portStr], err |-> Nil]

\* k8s.ConsumePort: consume(containerID) -> spec | not-found
ConsumePort(st, containerID, fail) ==
    IF st[containerID] = NoEntry
    THEN [saved |-> st, ports |-> {}, err |-> ENOENT]
    ELSE IF fail
    THEN [saved |-> st, ports |-> {}, err |-> EIO]
    ELSE [saved |-> [st EXCEPT ![containerID] = NoEntry],
          ports |-> ParsePorts(st[containerID]).ports, err |-> Nil]

\* os.IsNotExist
IsNotExist(err) == err = ENOENT

\* portmapping.SetupPortMapping("cni0", ports), on behalf of containerID; ins
\* is the installer's state
SetupPortMapping(ins, containerID, ports, fail) ==
    IF fail
    THEN [installed |-> ins, err |-> EIO]
    ELSE [installed |-> [ins EXCEPT ![containerID] = @ \cup ports], err |-> Nil]

\* portmapping.CleanPortMapping("cni0", ports): the ports come from the saved
\* spec and carry no pod IP, so the installed mappings are matched without it
CleanPortMapping(ins, containerID, ports, fail) ==
    IF fail
    THEN [installed |-> ins, err |-> EIO]
    ELSE [installed |-> [ins EXCEPT ![containerID] =
                            {p \in @ : [p EXCEPT !.PodIP = ""] \notin ports}],
          err |-> Nil]

\* net.IP.To4: nil unless the address is an IPv4 address
To4(ip) == IF ip = "10.1.2.3" THEN ip ELSE Nil

\* json.Marshal(result)
Marshal(result) == "{\"ip4\":\"" \o result \o "\"}"

\* the backend delegate: (request) -> (result, error)
cmdAdd(result, fail) ==
    [result |-> IF fail THEN NilResult ELSE result, err |-> IF fail THEN EIO ELSE Nil]

cmdDel(fail) == [err |-> IF fail THEN EIO ELSE Nil]

NotCalled == "<not called>"
\* calls lists the collaborators the handler has invoked, delegate is the
\* error the backend delegate returned (NotCalled while it has not been
\* invoked), result and ports are the handler's locals
IdleConn == [pc |-> "idle", Command |-> "", ContainerID |-> "", Ports |-> "",
             result |-> NilResult, ports |-> {}, data |-> "", err |-> Nil,
             calls |-> <<>>, delegate |-> NotCalled]

Has(calls, name) == \E i \in 1..Len(calls) : calls[i] = name

\* a variant of the dispatch that handles every command other than ADD as a DEL
Dispatch_UnknownAsDel(command) ==
    IF command = COMMAND_ADD THEN "cmdAdd" ELSE "cmdDel"

\* the branch requestFunc takes for a command (lines 79, 92, 98)
Dispatch(command) ==
    IF command = COMMAND_ADD THEN "cmdAdd"
    ELSE IF command = COMMAND_DEL THEN "cmdDel"
    ELSE "return"

\* a variant of the test of line 95 that cleans the port mappings up whatever
\* the delegate's teardown returned
AfterCmdDel_CleanupRegardless(err) == "ConsumePort"

\* lines 94-97: the port mappings are cleaned up when cmdDel returned no error
AfterCmdDel(err) == IF err = Nil THEN "ConsumePort" ELSE "return"

\* a variant of cleanupPortMapping's test that reports a missing entry as a failure
ConsumeError_NotFoundIsError(err) ==
    IF err = Nil THEN Nil ELSE "failed to read ports"

\* lines 152-157: the error cleanupPortMapping returns for ConsumePort's error
ConsumeError(err) ==
    IF err = Nil \/ IsNotExist(err) THEN Nil ELSE "failed to read ports"

\* connection c's handler moves on to rec; when rec is the handler's return,
\* the history of the container's last successful ADD is brought up to date
Goes(c, rec) ==
    /\ conn' = [conn EXCEPT ![c] = rec]
    /\ expect' =
         IF rec.pc = "done" /\ rec.Command = COMMAND_ADD /\ rec.err = Nil
         THEN [expect EXCEPT ![rec.ContainerID] =
                  /\ rec.Ports # ""
                  /\ rec.result \notin {NilResult, NoIP4}
                  /\ To4(rec.result) # Nil]
         ELSE IF rec.Command = COMMAND_DEL
                 /\ Has(rec.calls, "ConsumePort") /\ ~Has(conn[c].calls, "ConsumePort")
                 /\ saved'[rec.ContainerID] = NoEntry
         THEN [expect EXCEPT ![rec.ContainerID] = FALSE]
         ELSE expect
Return(c, err) == [conn[c] EXCEPT !.pc = "done", !.err = err]
SFrame == UNCHANGED <<conf, drv, kern, build, mutex, proc>>

\* lines 58, 64, 76-79, 92, 98-101: a request arrives on connection c
Request(c) ==
    /\ conn[c].pc \in {"idle", "done"}
    /\ \E command \in Commands, id \in ContainerIDs :
       \E p \in IF command = COMMAND_DEL THEN {""} ELSE PortSpecs :
          LET req == [IdleConn EXCEPT !.Command = command, !.ContainerID = id, !.Ports = p]
          IN  Goes(c, IF Dispatch(command) = "return"
                      THEN [req EXCEPT !.pc = "done", !.err = "unkown command"]
                      ELSE [req EXCEPT !.pc = Dispatch(command)])
    /\ UNCHANGED <<saved, installed, consumed>> /\ SFrame

\* lines 83-88 with 104-113: the delegate's Add
RCmdAdd(c) ==
    /\ conn[c].pc = "cmdAdd"
    /\ \E result \in DelegateResults, fail \in BOOLEAN :
          LET r == cmdAdd(result, fail)
              called == [conn[c] EXCEPT !.calls = Append(@, "cmdAdd"), !.delegate = r.err,
                                        !.result = r.result]
          IN  Goes(c, IF r.err # Nil THEN [called EXCEPT !.pc = "done", !.err = r.err]
                      ELSE IF r.result # NilResult
                      THEN [called EXCEPT !.pc = "SavePort", !.data = Marshal(r.result)]
                      ELSE [called EXCEPT !.pc = "done"])
    /\ UNCHANGED <<saved, installed, consumed>> /\ SFrame

\* lines 89, 124-142: setupPortMapping up to the installer's call
RSavePort(c) ==
    /\ conn[c].pc = "SavePort"
    /\ LET parsed == ParsePorts(conn[c].Ports)
           id == conn[c].ContainerID
       IN  IF parsed.err # Nil
           THEN /\ Goes(c, [Return(c, parsed.err) EXCEPT !.calls = Append(@, "ParsePorts")])
                /\ UNCHANGED <<saved, consumed>>
           ELSE \E fail \in BOOLEAN :
                   LET sv == SavePort(saved, id, conn[c].Ports, fail)
                       called == [conn[c] EXCEPT !.calls = @ \o <<"ParsePorts", "SavePort">>]
                       ports == {[p EXCEPT !.PodIP = To4(conn[c].result)] : p \in parsed.ports}
                   IN  /\ saved' = sv.saved
                       /\ consumed' = IF sv.err = Nil THEN [consumed EXCEPT ![id] = 0]
                                      ELSE consumed
                       /\ Goes(c, IF sv.err # Nil
                                  THEN [called EXCEPT !.pc = "done", !.err = "failed to save ports"]
                                  ELSE IF conn[c].result = NoIP4
                                  THEN [called EXCEPT !.pc = "done",
                                           !.err = "CNI plugin reported no IPv4 address"]
                                  ELSE IF To4(conn[c].result) = Nil
                                  THEN [called EXCEPT !.pc = "done",
                                           !.err = "CNI plugin reported an invalid IPv4 address"]
                                  ELSE IF ports # {}
                                  THEN [called EXCEPT !.pc = "SetupPortMapping", !.ports = ports]
                                  ELSE [called EXCEPT !.pc = "done"])
    /\ UNCHANGED installed /\ SFrame

\* lines 143-147
RSetupPortMapping(c) ==
    /\ conn[c].pc = "SetupPortMapping"
    /\ \E fail \in BOOLEAN :
          LET su == SetupPortMapping(installed, conn[c].ContainerID, conn[c].ports, fail)
              called == [conn[c] EXCEPT !.calls = Append(@, "SetupPortMapping")]
          IN  /\ installed' = su.installed
              /\ Goes(c, IF su.err # Nil
                         THEN [called EXCEPT !.pc = "done", !.err = "failed to setup port mapping"]
                         ELSE [called EXCEPT !.pc = "done"])
    /\ UNCHANGED <<saved, consumed>> /\ SFrame

\* lines 94-95 with 115-121: the delegate's Del
RCmdDel(c) ==
    /\ conn[c].pc = "cmdDel"
    /\ \E fail \in BOOLEAN :
          LET r == cmdDel(fail)
              called == [conn[c] EXCEPT !.calls = Append(@, "cmdDel"), !.delegate = r.err]
          IN  Goes(c, IF AfterCmdDel(r.err) = "return"
                      THEN [called EXCEPT !.pc = "done", !.err = r.err]
                      ELSE [called EXCEPT !.pc = AfterCmdDel(r.err), !.err = r.err])
    /\ UNCHANGED <<saved, installed, consumed>> /\ SFrame

\* lines 96, 151-158: cleanupPortMapping up to the installer's call
RConsumePort(c) ==
    /\ conn[c].pc = "ConsumePort"
    /\ \E fail \in BOOLEAN :
          LET id == conn[c].ContainerID
              cp == ConsumePort(saved, id, fail)
              called == [conn[c] EXCEPT !.calls = Append(@, "ConsumePort")]
          IN  /\ saved' = cp.saved
              /\ consumed' = IF cp.saved[id] # NoEntry THEN consumed
                             ELSE IF saved[id] # NoEntry THEN [consumed EXCEPT ![id] = 1]
                             ELSE IF consumed[id] >= 1 THEN [consumed EXCEPT ![id] = 2]
                             ELSE consumed
              /\ Goes(c, IF cp.err # Nil
                         THEN [called EXCEPT !.pc = "done", !.err = ConsumeError(cp.err)]
                         ELSE IF cp.ports # {}
                         THEN [called EXCEPT !.pc = "CleanPortMapping", !.ports = cp.ports]
                         ELSE [called EXCEPT !.pc = "done", !.err = Nil])
    /\ UNCHANGED installed /\ SFrame

\* lines 159-163
RCleanPortMapping(c) ==
    /\ conn[c].pc = "CleanPortMapping"
    /\ \E fail \in BOOLEAN :
          LET cl == CleanPortMapping(installed, conn[c].ContainerID, conn[c].ports, fail)
              called == [conn[c] EXCEPT !.calls = Append(@, "CleanPortMapping")]
          IN  /\ installed' = cl.installed
              /\ Goes(c, IF cl.err # Nil
                         THEN [called EXCEPT !.pc = "done", !.err = "failed to delete port mapping"]
                         ELSE [called EXCEPT !.pc = "done", !.err = Nil])
    /\ UNCHANGED <<saved, consumed>> /\ SFrame

(***************************************************************************)
(* The kernel, as the netlink calls of the driver see it.                  *)
(* A machine m = [links, routes, fail, n, calls]: links is the interface   *)
(* table (a link's Index is its position), routes the route table; n       *)
(* counts the mutating calls issued so far in the running step, fail       *)
(* holds the ordinals of the calls the environment makes fail, and calls   *)
(* logs every mutating call issued and whether the environment failed it.  *)
(* Lookups report the table as it is.                                      *)
(***************************************************************************)
NilLink == [Index |-> 0, Name |-> "", Type |-> "", MasterIndex |-> 0, ParentIndex |-> 0,
            VlanId |-> 0, Up |-> FALSE, HardwareAddr |-> "", Addrs |-> <<>>]

Machine(k, F) == [links |-> k.links, routes |-> k.routes, fail |-> F, n |-> 0, calls |-> <<>>]
Kernel(m) == [links |-> m.links, routes |-> m.routes]

Issue(m, op, link, arg) ==
    [m EXCEPT !.n = @ + 1,
              !.calls = Append(@, [op |-> op, link |-> link, arg |-> arg,
                                   injected |-> (m.n + 1) \in m.fail])]
Injected(m) == (m.n + 1) \in m.fail

\* netlink.LinkByName: the link's index, 0 when there is no such link
LinkByName(m, name) ==
    IF \E i \in 1..Len(m.links) : m.links[i].Name = name
    THEN CHOOSE i \in 1..Len(m.links) : m.links[i].Name = name
    ELSE 0

\* netlink.LinkByIndex
LinkByIndex(m, index) ==
    IF index \in 1..Len(m.links) THEN m.links[index] ELSE NilLink

\* netlink.LinkAdd
LinkAdd(m, l) ==
    LET m1 == Issue(m, "LinkAdd", 0, l.Name)
    IN  IF Injected(m) THEN [m |-> m1, err |-> EIO]
        ELSE IF LinkByName(m, l.Name) # 0 THEN [m |-> m1, err |-> EEXIST]
        ELSE IF l.Type = "vlan" /\ l.ParentIndex \notin 1..Len(m.links)
        THEN [m |-> m1, err |-> ENODEV]
        ELSE [m |-> [m1 EXCEPT !.links = Append(@, [l EXCEPT !.Index = Len(m.links) + 1])],
              err |-> Nil]

\* netlink.LinkSetUp
LinkSetUp(m, index) ==
    LET m1 == Issue(m, "LinkSetUp", index, "")
    IN  IF Injected(m) THEN [m |-> m1, err |-> EIO]
        ELSE IF index \notin 1..Len(m.links) THEN [m |-> m1, err |-> ENODEV]
        ELSE [m |-> [m1 EXCEPT !.links[index].Up = TRUE], err |-> Nil]

\* netlink.LinkSetMaster(link, &netlink.Bridge{Name: masterName}): the master
\* is resolved by name; the kernel enslaves only to a device that takes slaves
LinkSetMaster(m, index, masterName) ==
    LET m1 == Issue(m, "LinkSetMaster", index, masterName)
        mi == LinkByName(m, masterName)
    IN  IF Injected(m) THEN [m |-> m1, err |-> EIO]
        ELSE IF mi = 0 \/ index \notin 1..Len(m.links) THEN [m |-> m1, err |-> ENODEV]
        ELSE IF m.links[mi].Type \notin {"bridge", "bond"} \/ mi = index
        THEN [m |-> m1, err |-> EOPNOTSUPP]
        ELSE [m |-> [m1 EXCEPT !.links[index].MasterIndex = mi], err |-> Nil]

HasIP(l, ip) == \E j \in 1..Len(l.Addrs) : l.Addrs[j].IP = ip

\* netlink.AddrDel; the kernel drops the routes through a link that is left
\* without any IPv4 address
AddrDel(m, index, a) ==
    LET m1 == Issue(m, "AddrDel", index, a.IP)
    IN  IF Injected(m) THEN [m |-> m1, err |-> EIO]
        ELSE IF index \notin 1..Len(m.links) THEN [m |-> m1, err |-> ENODEV]
        ELSE IF ~HasIP(m.links[index], a.IP)
        THEN [m |-> m1, err |-> "cannot assign requested address"]
        ELSE LET rest == SelectSeq(m.links[index].Addrs, LAMBDA x : x.IP # a.IP)
             IN  [m |-> [m1 EXCEPT !.links[index].Addrs = rest,
                                   !.routes = IF Len(rest) = 0
                                              THEN SelectSeq(@, LAMBDA r : r.LinkIndex # index)
                                              ELSE @],
                  err |-> Nil]

\* netlink.AddrAdd; a label must be empty or belong to the link
AddrAdd(m, index, a) ==
    LET m1 == Issue(m, "AddrAdd", index, a.IP)
    IN  IF Injected(m) THEN [m |-> m1, err |-> EIO]
        ELSE IF index \notin 1..Len(m.links) THEN [m |-> m1, err |-> ENODEV]
        ELSE IF HasIP(m.links[index], a.IP) THEN [m |-> m1, err |-> EEXIST]
        ELSE IF a.Label \notin {"", m.links[index].Name} THEN [m |-> m1, err |-> EINVAL]
        ELSE [m |-> [m1 EXCEPT !.links[index].Addrs =
                        Append(@, [IP |-> a.IP, Label |-> m.links[index].Name])],
              err |-> Nil]

InRoutes(m, r) == \E j \in 1..Len(m.routes) : m.routes[j] = r

\* netlink.RouteAdd
RouteAdd(m, r) ==
    LET m1 == Issue(m, "RouteAdd", r.LinkIndex, r.Dst)
    IN  IF Injected(m) THEN [m |-> m1, err |-> EIO]
        ELSE IF InRoutes(m, r) THEN [m |-> m1, err |-> EEXIST]
        ELSE IF r.LinkIndex \notin 1..Len(m.links) THEN [m |-> m1, err |-> ENODEV]
        ELSE [m |-> [m1 EXCEPT !.routes = Append(@, r)], err |-> Nil]

\* netlink.RouteList(device, FAMILY_V4)
RouteList(m, index) == SelectSeq(m.routes, LAMBDA r : r.LinkIndex = index)

\* network.FilterLoopbackAddr
IsLoopback(ip) == ip = "127.0.0.2/8"
FilterLoopbackAddr(addrs) == SelectSeq(addrs, LAMBDA a : ~IsLoopback(a.IP))

\* utils.CreateBridgeDevice(name, mac)
CreateBridgeDevice(m, bridgeName, mac) ==
    LET r == LinkAdd(m, [NilLink EXCEPT !.Name = bridgeName, !.Type = "bridge",
                                        !.HardwareAddr = IF mac = "" THEN "kernel" ELSE mac])
    IN  r

\* utils.UnSetArpIgnore, utils.SetProxyArp, utils.EnableNonlocalBind: sysctl writes
Sysctl(m, op, arg) ==
    LET m1 == Issue(m, op, 0, arg)
    IN  IF Injected(m) THEN [m |-> m1, err |-> EIO] ELSE [m |-> m1, err |-> Nil]



(***************************************************************************)
(* The VLAN driver (package vlan).                                         *)
(* conf is the NetConf, drv = [vlanParentIndex, DeviceIndex] the driver's  *)
(* fields.  proc[p] is a caller of the driver: the operation it runs, the  *)
(* place it has reached (pc) and the operation's locals; a link value held *)
(* by the code is the link as it was looked up.  Of the operations only    *)
(* CreateBridgeAndVlanDevice and MaybeCreateVlanDevice take the mutex, and *)
(* no operation takes it for the whole of what it does to the driver's     *)
(* fields: a step of an operation is one access to what the callers share, *)
(* that is one read or one write of a field of the driver (a field of the  *)
(* NetConf is read through d.NetConf, which LoadConf replaces), one Lock   *)
(* or Unlock, or one call of the kernel, with the code that follows it up  *)
(* to the next access.                                                     *)
(***************************************************************************)
VlanPrefix == "vlan"
BridgePrefix == "docker"
DefaultBridge == "docker"

\* LoadConf: the defaults of the naming parameters
LoadConf(raw) ==
    [raw EXCEPT !.DefaultBridgeName = IF @ = "" THEN DefaultBridge ELSE @,
                !.BridgeNamePrefix = IF @ = "" THEN BridgePrefix ELSE @,
                !.VlanNamePrefix = IF @ = "" THEN VlanPrefix ELSE @]

\* a variant of MacVlanMode that never recognises the mode
MacVlanMode_Never(cf) == FALSE

MacVlanMode(cf) == cf.Switch = "macvlan"
IPVlanMode(cf) == cf.Switch = "ipvlan"

\* a variant of PureMode that never recognises the mode
PureMode_Never(cf) == FALSE

PureMode(cf) == cf.Switch = "pure"

\* line 257
VlanIfName(cf, vlanId) == Sprintf(cf.VlanNamePrefix, vlanId)

\* a variant of BridgeIfName that builds the name with the VLAN prefix
BridgeIfName_VlanPrefix(cf, vlanId) == Sprintf(cf.VlanNamePrefix, vlanId)

\* line 206
BridgeIfName(cf, vlanId) == Sprintf(cf.BridgeNamePrefix, vlanId)

\* a variant of VlansWithTag that passes over every link
VlansWithTag_None(links, vlanId) == <<>>

\* lines 298-303: the links of the list, in its order, that the loop compares
\* with d.vlanParentIndex: those of type vlan with the tag
VlansWithTag(links, vlanId) ==
    SelectSeq(links, LAMBDA l : l.Type = "vlan" /\ l.VlanId = vlanId)

\* a variant of getVlanMaster that does not look the master up
getVlanMaster_NoLookup(m, link) ==
    IF link.Type # "vlan" THEN [link |-> NilLink, err |-> "not a vlan device"]
    ELSE [link |-> NilLink, err |-> Nil]

getVlanMaster(m, link) ==
    IF link.Type # "vlan" THEN [link |-> NilLink, err |-> "not a vlan device"]
    ELSE IF link.MasterIndex <= 0 THEN [link |-> NilLink, err |-> Nil]
    ELSE LET master == LinkByIndex(m, link.MasterIndex)
         IN  IF master = NilLink THEN [link |-> NilLink, err |-> ENODEV]
             ELSE IF master.Type = "bridge" THEN [link |-> master, err |-> Nil]
             ELSE [link |-> NilLink, err |-> Nil]

\* lines 227-236, when no LoadConf falls between the reads of the function:
\* they all see configuration cf
BridgeNameForVlan(cf, vlanId) ==
    IF vlanId = 0 /\ PureMode(cf) THEN ""
    ELSE IF vlanId # 0 THEN Sprintf(cf.BridgeNamePrefix, vlanId)
    ELSE cf.DefaultBridgeName

\* a variant of Lock that does not wait
CanLock_NoWait(mx) == TRUE

\* sync.Mutex: Lock returns once no caller holds the mutex
CanLock(mx) == mx = 0

NoPrev == [again |-> FALSE, DeviceIndex |-> 0]
\* op, vlanId: the operation and its argument; err, name: what it returns,
\* cause the kernel's error behind err; calls: the mutating calls it has
\* issued; k0: the kernel when it was called; prev: whether the caller's
\* previous call was the same operation with the same argument and returned
\* no error, and the DeviceIndex that call left; seen: the configuration
\* the read of line 228 has seen.  The rest are locals of the
\* code: list is what is left of the links getVlanIfExist goes through,
\* parent the d.vlanParentIndex read for LinkAdd, devName and briName the
\* d.Device and d.DefaultBridgeName read for a call, i and j the loop
\* variables of Init, regs the iterations of its address loop that
\* registered a deferred function
IdleProc == [pc |-> "idle", op |-> "", vlanId |-> 0, err |-> Nil, cause |-> Nil, name |-> "",
             calls |-> <<>>, k0 |-> [links |-> <<>>, routes |-> <<>>], prev |-> NoPrev, seen |-> {},
             vlan |-> NilLink, bridge |-> NilLink, vlanIfName |-> "", bridgeIfName |-> "",
             list |-> <<>>, parent |-> 0, devName |-> "", briName |-> "",
             device |-> NilLink, bri |-> NilLink, fa |-> <<>>, rs |-> <<>>,
             i |-> 0, j |-> 0, regs |-> <<>>]

NumInjected(calls) == Cardinality({i \in 1..Len(calls) : calls[i].injected})
\* the environment's choice for the call of a step: it goes through, or it
\* fails, of one operation at most MaxFaults calls
Faults(p) == IF NumInjected(proc[p].calls) < MaxFaults THEN {{}, {1}} ELSE {{}}
At(p, pc) == proc[p].pc = pc
Free(p) == proc[p].pc \in {"idle", "done"}
Set(p, new) == proc' = [proc EXCEPT ![p] = new]
\* caller p after the call whose machine is m
Called(p, m) == [proc[p] EXCEPT !.calls = @ \o m.calls]
\* caller p calls an operation of the driver
Enter(p, op, vlanId) ==
    [IdleProc EXCEPT !.op = op, !.vlanId = vlanId, !.k0 = kern,
                     !.prev = IF proc[p].op = op /\ proc[p].vlanId = vlanId /\ proc[p].err = Nil
                              THEN [again |-> TRUE, DeviceIndex |-> drv.DeviceIndex]
                              ELSE NoPrev]
\* the operation of caller record rec returns
Leave(rec, name, err, cause) ==
    [IdleProc EXCEPT !.pc = "done", !.op = rec.op, !.vlanId = rec.vlanId, !.err = err,
                     !.cause = cause, !.name = name, !.calls = rec.calls, !.k0 = rec.k0,
                     !.prev = rec.prev]
\* an error return of CreateBridgeAndVlanDevice or MaybeCreateVlanDevice: the
\* deferred Unlock runs first
Fail(rec, err, cause) == [rec EXCEPT !.pc = "Unlock", !.err = err, !.cause = cause]
\* after getOrCreateVlanDevice returned the link (lines 195-198, 244-245)
GotVlan(rec, link) ==
    IF rec.op = "Maybe" THEN [rec EXCEPT !.pc = "Unlock", !.vlan = link]
    ELSE [rec EXCEPT !.pc = "getVlanMaster", !.vlan = link]
DFrame == UNCHANGED <<conf, build, srvVars>>

\* LoadConf called again (line 64), with one of the configurations Confs
Reload(Confs) ==
    /\ conf' \in {LoadConf(c) : c \in Confs}
    /\ UNCHANGED <<drv, kern, build, mutex, proc, srvVars>>

(***************************************************************************)
(* BridgeNameForVlan.  It takes no lock.                                   *)
(***************************************************************************)
\* a variant of the test of lines 190 and 239 that takes no tag for tag 0
TagZero_Never(vlanId) == FALSE

\* lines 190, 228, 239
TagZero(vlanId) == vlanId = 0

\* the first access of BridgeNameForVlan: d.Switch at line 228 for tag 0
\* (vlanId == 0 && d.PureMode()), d.DefaultBridgeName at line 231 otherwise
NCalled(rec) ==
    [rec EXCEPT !.pc = IF TagZero(rec.vlanId) THEN "BridgeNameForVlan" ELSE "DefaultBridgeName"]

\* line 227: BridgeNameForVlan is called
NBridgeName(p, Tags) ==
    /\ Free(p)
    /\ \E vlanId \in Tags : Set(p, NCalled(Enter(p, "BridgeName", vlanId)))
    /\ UNCHANGED <<kern, drv, mutex>> /\ DFrame

\* lines 228-230: d.Switch is read
NPureMode(p) ==
    /\ At(p, "BridgeNameForVlan")
    /\ Set(p, IF PureMode(conf) THEN Leave(proc[p], "", Nil, Nil)
              ELSE [proc[p] EXCEPT !.pc = "DefaultBridgeName", !.seen = {conf}])
    /\ UNCHANGED <<kern, drv, mutex>> /\ DFrame

\* lines 231-232: d.DefaultBridgeName is read
NDefaultBridgeName(p) ==
    /\ At(p, "DefaultBridgeName")
    /\ Set(p, IF proc[p].vlanId # 0
              THEN [proc[p] EXCEPT !.pc = "BridgeNamePrefix", !.name = conf.DefaultBridgeName]
              ELSE Leave(proc[p], conf.DefaultBridgeName, Nil, Nil))
    /\ UNCHANGED <<kern, drv, mutex>> /\ DFrame

\* lines 233-235: d.BridgeNamePrefix is read
NBridgeNamePrefix(p) ==
    /\ At(p, "BridgeNamePrefix")
    /\ Set(p, Leave(proc[p], Sprintf(conf.BridgeNamePrefix, proc[p].vlanId), Nil, Nil))
    /\ UNCHANGED <<kern, drv, mutex>> /\ DFrame

(***************************************************************************)
(* CreateBridgeAndVlanDevice and MaybeCreateVlanDevice.                    *)
(***************************************************************************)
\* a variant of the assignment of line 272 that records nothing
Recorded_Nothing(d, link) == d

\* line 272: d.DeviceIndex = vlan.Attrs().Index
Recorded(d, link) == [d EXCEPT !.DeviceIndex = link.Index]

\* lines 190-192, 239-241: the operation is called; for tag 0 it returns, or
\* goes on in BridgeNameForVlan, without the lock
CCall(p, Tags) ==
    /\ Free(p)
    /\ \E op \in {"Create", "Maybe"}, vlanId \in Tags :
          LET rec == Enter(p, op, vlanId)
          IN  Set(p, IF ~TagZero(vlanId) THEN [rec EXCEPT !.pc = "Lock"]
                     ELSE IF op = "Create" THEN NCalled(rec)
                     ELSE Leave(rec, "", Nil, Nil))
    /\ UNCHANGED <<kern, drv, mutex>> /\ DFrame

\* lines 193, 242
CLock(p) ==
    /\ At(p, "Lock")
    /\ CanLock(mutex)
    /\ mutex' = p
    /\ Set(p, [proc[p] EXCEPT !.pc = "LinkList"])
    /\ UNCHANGED <<kern, drv>> /\ DFrame

\* lines 294-303, 305-309: netlink.LinkList; the loop runs up to its first
\* read of d.vlanParentIndex
CLinkList(p) ==
    /\ At(p, "LinkList")
    /\ LET list == VlansWithTag(kern.links, proc[p].vlanId)
       IN  Set(p, IF Len(list) > 0 THEN [proc[p] EXCEPT !.pc = "vlanParentIndexOfLink", !.list = list]
                  ELSE [proc[p] EXCEPT !.pc = "VlanNamePrefix"])
    /\ UNCHANGED <<kern, drv, mutex>> /\ DFrame

\* lines 303-309, 250-252: d.vlanParentIndex is read and compared with the
\* parent of the next VLAN link that has the tag
CParentIndex(p) ==
    /\ At(p, "vlanParentIndexOfLink")
    /\ LET vlan == Head(proc[p].list)
       IN  Set(p, IF vlan.ParentIndex = drv.vlanParentIndex
                  THEN [proc[p] EXCEPT !.pc = "DeviceIndexFound", !.vlan = vlan, !.list = <<>>]
                  ELSE IF Len(proc[p].list) > 1 THEN [proc[p] EXCEPT !.list = Tail(@)]
                  ELSE [proc[p] EXCEPT !.pc = "VlanNamePrefix", !.list = <<>>])
    /\ UNCHANGED <<kern, drv, mutex>> /\ DFrame

\* lines 253-254: the device found is recorded
CRecordFound(p) ==
    /\ At(p, "DeviceIndexFound")
    /\ drv' = [drv EXCEPT !.DeviceIndex = proc[p].vlan.Index]
    /\ Set(p, GotVlan(proc[p], proc[p].vlan))
    /\ UNCHANGED <<kern, mutex>> /\ DFrame

\* line 257: d.VlanNamePrefix is read
CVlanIfName(p) ==
    /\ At(p, "VlanNamePrefix")
    /\ Set(p, [proc[p] EXCEPT !.pc = "LinkByNameVlan",
                              !.vlanIfName = VlanIfName(conf, proc[p].vlanId)])
    /\ UNCHANGED <<kern, drv, mutex>> /\ DFrame

\* lines 259, 177-178, for the VLAN device
CLookupVlan(p) ==
    /\ At(p, "LinkByNameVlan")
    /\ LET i == LinkByName(Machine(kern, {}), proc[p].vlanIfName)
       IN  Set(p, IF i = 0 THEN [proc[p] EXCEPT !.pc = "vlanParentIndexOfVlan"]
                  ELSE [proc[p] EXCEPT !.pc = "LinkSetUpVlan", !.vlan = kern.links[i]])
    /\ UNCHANGED <<kern, drv, mutex>> /\ DFrame

\* lines 179, 260: d.vlanParentIndex is read for the device to create
CVlanParent(p) ==
    /\ At(p, "vlanParentIndexOfVlan")
    /\ Set(p, [proc[p] EXCEPT !.pc = "LinkAddVlan", !.parent = drv.vlanParentIndex])
    /\ UNCHANGED <<kern, drv, mutex>> /\ DFrame

\* lines 260-263, 180-181
CAddVlan(p) ==
    /\ At(p, "LinkAddVlan")
    /\ \E F \in Faults(p) :
          LET r == LinkAdd(Machine(kern, F),
                           [NilLink EXCEPT !.Name = proc[p].vlanIfName, !.Type = "vlan",
                                           !.ParentIndex = proc[p].parent,
                                           !.VlanId = proc[p].vlanId, !.HardwareAddr = "kernel"])
          IN  /\ kern' = Kernel(r.m)
              /\ Set(p, IF r.err # Nil THEN Fail(Called(p, r.m), "Failed to add device", r.err)
                        ELSE [Called(p, r.m) EXCEPT !.pc = "LinkByNameVlan2"])
    /\ UNCHANGED <<drv, mutex>> /\ DFrame

\* lines 182-184, 264-267, for the VLAN device
CRelookVlan(p) ==
    /\ At(p, "LinkByNameVlan2")
    /\ LET i == LinkByName(Machine(kern, {}), proc[p].vlanIfName)
       IN  Set(p, IF i = 0 THEN Fail(proc[p], "Failed to get device", ENODEV)
                  ELSE [proc[p] EXCEPT !.pc = "LinkSetUpVlan", !.vlan = kern.links[i]])
    /\ UNCHANGED <<kern, drv, mutex>> /\ DFrame

\* lines 269-271
CUpVlan(p) ==
    /\ At(p, "LinkSetUpVlan")
    /\ \E F \in Faults(p) :
          LET r == LinkSetUp(Machine(kern, F), proc[p].vlan.Index)
          IN  /\ kern' = Kernel(r.m)
              /\ Set(p, IF r.err # Nil
                        THEN Fail(Called(p, r.m), "Failed to set up vlan device", r.err)
                        ELSE [Called(p, r.m) EXCEPT !.pc = "DeviceIndexOfVlan"])
    /\ UNCHANGED <<drv, mutex>> /\ DFrame

\* lines 272-273: the device looked up or created by name is recorded
CRecordVlan(p) ==
    /\ At(p, "DeviceIndexOfVlan")
    /\ drv' = Recorded(drv, proc[p].vlan)
    /\ Set(p, GotVlan(proc[p], proc[p].vlan))
    /\ UNCHANGED <<kern, mutex>> /\ DFrame

\* lines 199-205: the master of the VLAN device is looked up
CGetVlanMaster(p) ==
    /\ At(p, "getVlanMaster")
    /\ LET ms == getVlanMaster(Machine(kern, {}), proc[p].vlan)
       IN  Set(p, IF ms.err # Nil THEN Fail(proc[p], ms.err, ms.err)
                  ELSE IF ms.link # NilLink
                  THEN [proc[p] EXCEPT !.pc = "Unlock", !.name = ms.link.Name]
                  ELSE [proc[p] EXCEPT !.pc = "bridgeIfName"])
    /\ UNCHANGED <<kern, drv, mutex>> /\ DFrame

\* line 206: d.BridgeNamePrefix is read
CBridgeIfName(p) ==
    /\ At(p, "bridgeIfName")
    /\ Set(p, [proc[p] EXCEPT !.pc = "LinkByNameBridge",
                              !.bridgeIfName = BridgeIfName(conf, proc[p].vlanId)])
    /\ UNCHANGED <<kern, drv, mutex>> /\ DFrame

\* lines 207, 177-178, for the bridge of the tag
CLookupBridge(p) ==
    /\ At(p, "LinkByNameBridge")
    /\ LET i == LinkByName(Machine(kern, {}), proc[p].bridgeIfName)
       IN  Set(p, IF i = 0 THEN [proc[p] EXCEPT !.pc = "LinkAddBridge"]
                  ELSE [proc[p] EXCEPT !.pc = "LinkSetMaster", !.bridge = kern.links[i]])
    /\ UNCHANGED <<kern, drv, mutex>> /\ DFrame

\* lines 179-181 with 168-172, for the bridge of the tag
CAddBridge(p) ==
    /\ At(p, "LinkAddBridge")
    /\ \E F \in Faults(p) :
          LET r == CreateBridgeDevice(Machine(kern, F), proc[p].bridgeIfName, "")
          IN  /\ kern' = Kernel(r.m)
              /\ Set(p, IF r.err # Nil THEN Fail(Called(p, r.m), "Failed to add device", r.err)
                        ELSE [Called(p, r.m) EXCEPT !.pc = "LinkByNameBridge2"])
    /\ UNCHANGED <<drv, mutex>> /\ DFrame

\* lines 182-184, 208-210, for the bridge of the tag
CRelookBridge(p) ==
    /\ At(p, "LinkByNameBridge2")
    /\ LET i == LinkByName(Machine(kern, {}), proc[p].bridgeIfName)
       IN  Set(p, IF i = 0 THEN Fail(proc[p], "Failed to get device", ENODEV)
                  ELSE [proc[p] EXCEPT !.pc = "LinkSetMaster", !.bridge = kern.links[i]])
    /\ UNCHANGED <<kern, drv, mutex>> /\ DFrame

\* lines 211-215
CSetMaster(p) ==
    /\ At(p, "LinkSetMaster")
    /\ IF proc[p].vlan.MasterIndex # proc[p].bridge.Index
       THEN \E F \in Faults(p) :
               LET r == LinkSetMaster(Machine(kern, F), proc[p].vlan.Index, proc[p].bridgeIfName)
               IN  /\ kern' = Kernel(r.m)
                   /\ Set(p, IF r.err # Nil
                             THEN Fail(Called(p, r.m),
                                       "Failed to add vlan device to bridge device", r.err)
                             ELSE [Called(p, r.m) EXCEPT !.pc = "LinkSetUpBridge"])
       ELSE /\ kern' = kern
            /\ Set(p, [proc[p] EXCEPT !.pc = "LinkSetUpBridge"])
    /\ UNCHANGED <<drv, mutex>> /\ DFrame

\* lines 216-218
CUpBridge(p) ==
    /\ At(p, "LinkSetUpBridge")
    /\ \E F \in Faults(p) :
          LET r == LinkSetUp(Machine(kern, F), proc[p].bridge.Index)
          IN  /\ kern' = Kernel(r.m)
              /\ Set(p, IF r.err # Nil
                        THEN Fail(Called(p, r.m), "Failed to set up bridge device", r.err)
                        ELSE [Called(p, r.m) EXCEPT !.pc = "PureModeOfBridge"])
    /\ UNCHANGED <<drv, mutex>> /\ DFrame

\* lines 219, 224: d.Switch is read
CPureMode(p) ==
    /\ At(p, "PureModeOfBridge")
    /\ Set(p, IF PureMode(conf) THEN [proc[p] EXCEPT !.pc = "SetProxyArp"]
              ELSE [proc[p] EXCEPT !.pc = "Unlock", !.name = proc[p].bridgeIfName])
    /\ UNCHANGED <<kern, drv, mutex>> /\ DFrame

\* lines 220-224
CProxyArp(p) ==
    /\ At(p, "SetProxyArp")
    /\ \E F \in Faults(p) :
          LET r == Sysctl(Machine(kern, F), "SetProxyArp", proc[p].bridgeIfName)
          IN  Set(p, IF r.err # Nil THEN Fail(Called(p, r.m), r.err, r.err)
                     ELSE [Called(p, r.m) EXCEPT !.pc = "Unlock", !.name = proc[p].bridgeIfName])
    /\ UNCHANGED <<kern, drv, mutex>> /\ DFrame

\* the deferred d.Unlock() of lines 194, 243, and the return
CUnlock(p) ==
    /\ At(p, "Unlock")
    /\ mutex' = 0
    /\ Set(p, Leave(proc[p], proc[p].name, proc[p].err, proc[p].cause))
    /\ UNCHANGED <<kern, drv>> /\ DFrame

(***************************************************************************)
(* Init.  It takes no lock.                                                *)
(***************************************************************************)
\* the sysctl writes of pure mode, in the order of lines 85-94; device is the
\* d.Device read for the write
PureSteps(device) ==
    <<[op |-> "UnSetArpIgnore", arg |-> "all"], [op |-> "UnSetArpIgnore", arg |-> device],
      [op |-> "SetProxyArp", arg |-> device], [op |-> "EnableNonlocalBind", arg |-> ""]>>

\* a variant of the test of lines 106-111 that does not compare the device's
\* master with the default bridge
VerifyError_NoMasterCheck(bi, device) ==
    IF bi = 0 THEN "Error getting bri device" ELSE Nil

\* lines 106-111: bi is the index of the default bridge, 0 when there is none
VerifyError(bi, device) ==
    IF bi = 0 THEN "Error getting bri device"
    ELSE IF bi # device.MasterIndex THEN "No available address found on device"
    ELSE Nil

\* a variant of GotBridge that leaves the bridge as it is
GotBridge_NotBroughtUp(rec, link) == [rec EXCEPT !.pc = "RouteList", !.bri = link]

\* after getOrCreateBridge returned the link (lines 113-117)
GotBridge(rec, link) == [rec EXCEPT !.pc = "LinkSetUp", !.bri = link]

\* a variant of NewRoute whose route keeps the device's link index
NewRoute_ThroughDevice(r, bri) ==
    [Gw |-> r.Gw, LinkIndex |-> r.LinkIndex, Dst |-> r.Dst, Src |-> r.Src,
     Scope |-> r.Scope, Priority |-> 0]

\* line 154
NewRoute(r, bri) ==
    [Gw |-> r.Gw, LinkIndex |-> bri.Index, Dst |-> r.Dst, Src |-> r.Src,
     Scope |-> r.Scope, Priority |-> 0]

\* a variant of DeferredError that returns the error of a failed deferred call
DeferredError_Escalated(err, callErr) == IF callErr # Nil THEN "rollback failed" ELSE err

\* lines 127 and 138: the error of a deferred call is dropped; err is what
\* Init returns
DeferredError(err, callErr) == err

\* Init returns err from inside the migration (after line 124): the deferred
\* functions run, last registered first, and do something when err is not nil
Unwind(rec, err) ==
    IF err = Nil THEN Leave(rec, "", Nil, Nil)
    ELSE IF Len(rec.regs) > 0 THEN [rec EXCEPT !.pc = "deferredAddrAdd", !.err = err]
    ELSE IF Len(rec.rs) > 0 THEN [rec EXCEPT !.pc = "deferredRouteAdd", !.err = err, !.j = 1]
    ELSE Leave(rec, "", err, Nil)

\* lines 68-69: Init is called and reads d.Device
IDevice(p) ==
    /\ Free(p)
    /\ Set(p, [Enter(p, "Init", 0) EXCEPT !.pc = "LinkByName", !.devName = conf.Device])
    /\ UNCHANGED <<kern, drv, mutex>> /\ DFrame

\* lines 69-72
ILinkByName(p) ==
    /\ At(p, "LinkByName")
    /\ LET i == LinkByName(Machine(kern, {}), proc[p].devName)
       IN  Set(p, IF i = 0 THEN Leave(proc[p], "", "Error getting device", ENODEV)
                  ELSE [proc[p] EXCEPT !.pc = "DeviceIndex", !.device = kern.links[i]])
    /\ UNCHANGED <<kern, drv, mutex>> /\ DFrame

\* line 73
IDeviceIndex(p) ==
    /\ At(p, "DeviceIndex")
    /\ drv' = [drv EXCEPT !.DeviceIndex = proc[p].device.Index]
    /\ Set(p, [proc[p] EXCEPT !.pc = "vlanParentIndex"])
    /\ UNCHANGED <<kern, mutex>> /\ DFrame

\* lines 74-76
IParentIndex(p) ==
    /\ At(p, "vlanParentIndex")
    /\ drv' = [drv EXCEPT !.vlanParentIndex = proc[p].device.Index]
    /\ Set(p, [proc[p] EXCEPT !.pc = IF proc[p].device.Type = "vlan" THEN "ParentIndex"
                                     ELSE "MacVlanMode"])
    /\ UNCHANGED <<kern, mutex>> /\ DFrame

\* lines 77-80: the configured device is a VLAN device
IParentOfVlan(p) ==
    /\ At(p, "ParentIndex")
    /\ drv' = [drv EXCEPT !.vlanParentIndex = proc[p].device.ParentIndex]
    /\ Set(p, [proc[p] EXCEPT !.pc = "MacVlanMode"])
    /\ UNCHANGED <<kern, mutex>> /\ DFrame

\* lines 81-83: d.Switch is read by MacVlanMode
IMacVlanMode(p) ==
    /\ At(p, "MacVlanMode")
    /\ Set(p, IF MacVlanMode(conf) THEN Leave(proc[p], "", Nil, Nil)
              ELSE [proc[p] EXCEPT !.pc = "IPVlanMode"])
    /\ UNCHANGED <<kern, drv, mutex>> /\ DFrame

\* lines 81-83: d.Switch is read by IPVlanMode
IIPVlanMode(p) ==
    /\ At(p, "IPVlanMode")
    /\ Set(p, IF IPVlanMode(conf) THEN Leave(proc[p], "", Nil, Nil)
              ELSE [proc[p] EXCEPT !.pc = "PureMode"])
    /\ UNCHANGED <<kern, drv, mutex>> /\ DFrame

\* line 84: d.Switch is read by PureMode
IPureMode(p) ==
    /\ At(p, "PureMode")
    /\ Set(p, IF PureMode(conf) THEN [proc[p] EXCEPT !.pc = "sysctl", !.j = 1]
              ELSE [proc[p] EXCEPT !.pc = "DisableDefaultBridge"])
    /\ UNCHANGED <<kern, drv, mutex>> /\ DFrame

\* lines 88, 91: d.Device is read for the next sysctl write
IPureDevice(p) ==
    /\ At(p, "sysctlDevice")
    /\ Set(p, [proc[p] EXCEPT !.pc = "sysctl", !.devName = conf.Device])
    /\ UNCHANGED <<kern, drv, mutex>> /\ DFrame

\* lines 85-94: the next of the four sysctl writes; the second and the third
\* (lines 88, 91) take d.Device, which is read first
IPure(p) ==
    /\ At(p, "sysctl")
    /\ \E F \in Faults(p) :
          LET j == proc[p].j
              step == PureSteps(proc[p].devName)[j]
              r == Sysctl(Machine(kern, F), step.op, step.arg)
          IN  Set(p, IF r.err # Nil THEN Leave(Called(p, r.m), "", r.err, r.err)
                     ELSE IF j = Len(PureSteps(proc[p].devName))
                     THEN Leave(Called(p, r.m), "", Nil, Nil)
                     ELSE [Called(p, r.m) EXCEPT !.j = j + 1,
                               !.pc = IF j + 1 \in {2, 3} THEN "sysctlDevice" ELSE "sysctl"])
    /\ UNCHANGED <<kern, drv, mutex>> /\ DFrame

\* line 96: d.DisableDefaultBridge is read and compared with nil
IDisableSet(p) ==
    /\ At(p, "DisableDefaultBridge")
    /\ Set(p, IF conf.DisableDefaultBridge # "unset"
              THEN [proc[p] EXCEPT !.pc = "DisableDefaultBridgeValue"]
              ELSE [proc[p] EXCEPT !.pc = "AddrList"])
    /\ UNCHANGED <<kern, drv, mutex>> /\ DFrame

\* lines 96-98: d.DisableDefaultBridge is read again and dereferenced; Init
\* panics on the nil pointer of a configuration loaded since line 96's test
IDisableValue(p) ==
    /\ At(p, "DisableDefaultBridgeValue")
    /\ Set(p, IF conf.DisableDefaultBridge = "unset" THEN [proc[p] EXCEPT !.pc = "panic"]
              ELSE IF conf.DisableDefaultBridge = "true" THEN Leave(proc[p], "", Nil, Nil)
              ELSE [proc[p] EXCEPT !.pc = "AddrList"])
    /\ UNCHANGED <<kern, drv, mutex>> /\ DFrame

\* lines 99-104, 112
IAddrList(p) ==
    /\ At(p, "AddrList")
    /\ LET filteredAddr == FilterLoopbackAddr(LinkByIndex(Machine(kern, {}),
                                                          proc[p].device.Index).Addrs)
       IN  Set(p, IF Len(filteredAddr) = 0 THEN [proc[p] EXCEPT !.pc = "DefaultBridgeNameOfBri"]
                  ELSE [proc[p] EXCEPT !.pc = "DefaultBridgeNameOfBridge", !.fa = filteredAddr])
    /\ UNCHANGED <<kern, drv, mutex>> /\ DFrame

\* line 105: d.DefaultBridgeName is read
IBriName(p) ==
    /\ At(p, "DefaultBridgeNameOfBri")
    /\ Set(p, [proc[p] EXCEPT !.pc = "LinkByNameBri", !.briName = conf.DefaultBridgeName])
    /\ UNCHANGED <<kern, drv, mutex>> /\ DFrame

\* lines 105-111, 164
IVerify(p) ==
    /\ At(p, "LinkByNameBri")
    /\ LET bi == LinkByName(Machine(kern, {}), proc[p].briName)
       IN  Set(p, Leave(proc[p], "", VerifyError(bi, proc[p].device),
                        IF bi = 0 THEN ENODEV ELSE Nil))
    /\ UNCHANGED <<kern, drv, mutex>> /\ DFrame

\* line 113: d.DefaultBridgeName is read
IBridgeName(p) ==
    /\ At(p, "DefaultBridgeNameOfBridge")
    /\ Set(p, [proc[p] EXCEPT !.pc = "getOrCreateBridge", !.briName = conf.DefaultBridgeName])
    /\ UNCHANGED <<kern, drv, mutex>> /\ DFrame

\* lines 113, 177-178, for the default bridge
IBridgeLookup(p) ==
    /\ At(p, "getOrCreateBridge")
    /\ LET i == LinkByName(Machine(kern, {}), proc[p].briName)
       IN  Set(p, IF i = 0 THEN [proc[p] EXCEPT !.pc = "CreateBridgeDevice"]
                  ELSE GotBridge(proc[p], kern.links[i]))
    /\ UNCHANGED <<kern, drv, mutex>> /\ DFrame

\* lines 179-181 with 168-172, for the default bridge
IBridgeAdd(p) ==
    /\ At(p, "CreateBridgeDevice")
    /\ \E F \in Faults(p) :
          LET r == CreateBridgeDevice(Machine(kern, F), proc[p].briName,
                                      proc[p].device.HardwareAddr)
          IN  /\ kern' = Kernel(r.m)
              /\ Set(p, IF r.err # Nil
                        THEN Leave(Called(p, r.m), "", "Failed to add device", r.err)
                        ELSE [Called(p, r.m) EXCEPT !.pc = "LinkByNameBri2"])
    /\ UNCHANGED <<drv, mutex>> /\ DFrame

\* lines 182-184 and 114-116, for the default bridge
IBridgeRelook(p) ==
    /\ At(p, "LinkByNameBri2")
    /\ LET i == LinkByName(Machine(kern, {}), proc[p].briName)
       IN  Set(p, IF i = 0 THEN Leave(proc[p], "", "Failed to get device", ENODEV)
                  ELSE GotBridge(proc[p], kern.links[i]))
    /\ UNCHANGED <<kern, drv, mutex>> /\ DFrame

\* lines 117-119
IBridgeUp(p) ==
    /\ At(p, "LinkSetUp")
    /\ \E F \in Faults(p) :
          LET r == LinkSetUp(Machine(kern, F), proc[p].bri.Index)
          IN  /\ kern' = Kernel(r.m)
              /\ Set(p, IF r.err # Nil
                        THEN Leave(Called(p, r.m), "", "Failed to set up bridge device", r.err)
                        ELSE [Called(p, r.m) EXCEPT !.pc = "RouteList"])
    /\ UNCHANGED <<drv, mutex>> /\ DFrame

\* lines 120-131: the routes are listed and the first deferred function is
\* registered
IRouteList(p) ==
    /\ At(p, "RouteList")
    /\ Set(p, [proc[p] EXCEPT !.pc = "AddrDel", !.i = 1,
                              !.rs = RouteList(Machine(kern, {}), proc[p].device.Index)])
    /\ UNCHANGED <<kern, drv, mutex>> /\ DFrame

\* lines 132-140: the address leaves the device and the iteration's deferred
\* function is registered
IAddrDel(p) ==
    /\ At(p, "AddrDel")
    /\ \E F \in Faults(p) :
          LET r == AddrDel(Machine(kern, F), proc[p].device.Index, proc[p].fa[proc[p].i])
          IN  /\ kern' = Kernel(r.m)
              /\ Set(p, IF r.err # Nil
                        THEN Unwind(Called(p, r.m), "Failed to remove v4address from device")
                        ELSE [Called(p, r.m) EXCEPT !.pc = "AddrAdd",
                                                    !.regs = Append(@, proc[p].i)])
    /\ UNCHANGED <<drv, mutex>> /\ DFrame

\* lines 141-149, 131
IAddrAdd(p) ==
    /\ At(p, "AddrAdd")
    /\ \E F \in Faults(p) :
          LET i == proc[p].i
              fa1 == [proc[p].fa EXCEPT ![i].Label = ""]
              r == AddrAdd(Machine(kern, F), proc[p].bri.Index, fa1[i])
              rec == [Called(p, r.m) EXCEPT !.fa = fa1]
          IN  /\ kern' = Kernel(r.m)
              /\ Set(p, IF r.err # Nil /\ ~ContainsFileExists(r.err)
                        THEN Unwind(rec, "Failed to add v4address to bridge device")
                        ELSE IF i < Len(fa1) THEN [rec EXCEPT !.pc = "AddrDel", !.i = i + 1]
                        ELSE [rec EXCEPT !.pc = "DefaultBridgeNameOfMaster"])
    /\ UNCHANGED <<drv, mutex>> /\ DFrame

\* line 150: d.DefaultBridgeName is read
IMasterName(p) ==
    /\ At(p, "DefaultBridgeNameOfMaster")
    /\ Set(p, [proc[p] EXCEPT !.pc = "LinkSetMasterDevice", !.briName = conf.DefaultBridgeName])
    /\ UNCHANGED <<kern, drv, mutex>> /\ DFrame

\* lines 150-153, 164
ISetMaster(p) ==
    /\ At(p, "LinkSetMasterDevice")
    /\ \E F \in Faults(p) :
          LET r == LinkSetMaster(Machine(kern, F), proc[p].device.Index, proc[p].briName)
          IN  /\ kern' = Kernel(r.m)
              /\ Set(p, IF r.err # Nil
                        THEN Unwind(Called(p, r.m), "Failed to add device to bridge device")
                        ELSE IF Len(proc[p].rs) > 0
                        THEN [Called(p, r.m) EXCEPT !.pc = "RouteAdd", !.j = 1]
                        ELSE Unwind(Called(p, r.m), Nil))
    /\ UNCHANGED <<drv, mutex>> /\ DFrame

\* lines 153-162, 164
IRouteAdd(p) ==
    /\ At(p, "RouteAdd")
    /\ \E F \in Faults(p) :
          LET j == proc[p].j
              r == RouteAdd(Machine(kern, F), NewRoute(proc[p].rs[j], proc[p].bri))
          IN  /\ kern' = Kernel(r.m)
              /\ Set(p, IF r.err # Nil /\ ~ContainsFileExists(r.err)
                        THEN Unwind(Called(p, r.m), "failed to add route")
                        ELSE IF j < Len(proc[p].rs) THEN [Called(p, r.m) EXCEPT !.j = j + 1]
                        ELSE Unwind(Called(p, r.m), Nil))
    /\ UNCHANGED <<drv, mutex>> /\ DFrame

\* lines 136-140: the deferred function registered last runs; it re-adds
\* filteredAddr[i] for the i it sees: its own iteration's when the build gives
\* every iteration its own variable, the loop variable's last value otherwise
IDeferredAddrAdd(p) ==
    /\ At(p, "deferredAddrAdd")
    /\ \E F \in Faults(p) :
          LET regs == proc[p].regs
              i == IF build THEN regs[Len(regs)] ELSE proc[p].i
              r == AddrAdd(Machine(kern, F), proc[p].device.Index, proc[p].fa[i])
              rec == [Called(p, r.m) EXCEPT !.regs = SubSeq(regs, 1, Len(regs) - 1)]
          IN  /\ kern' = Kernel(r.m)
              /\ Set(p, Unwind(rec, DeferredError(proc[p].err, r.err)))
    /\ UNCHANGED <<drv, mutex>> /\ DFrame

\* lines 124-130: the deferred function registered first runs last and
\* re-adds the routes as they were listed
IDeferredRouteAdd(p) ==
    /\ At(p, "deferredRouteAdd")
    /\ \E F \in Faults(p) :
          LET j == proc[p].j
              r == RouteAdd(Machine(kern, F), proc[p].rs[j])
              err == DeferredError(proc[p].err, r.err)
          IN  /\ kern' = Kernel(r.m)
              /\ Set(p, IF j < Len(proc[p].rs) THEN [Called(p, r.m) EXCEPT !.j = j + 1, !.err = err]
                        ELSE Leave(Called(p, r.m), "", err, Nil))
    /\ UNCHANGED <<drv, mutex>> /\ DFrame


(***************************************************************************)
(* Hosts: the kernel states a driver may be started on.                    *)
(***************************************************************************)
VlanIds == {0, 5, 7}
LoopbackIP == "127.0.0.2/8"
DeviceIP(k) == Sprintf("10.0.0.", 4 + k) \o "/24"

AddLink(links, l) == Append(links, [l EXCEPT !.Index = Len(links) + 1])
Phys(name) == [NilLink EXCEPT !.Name = name, !.Type = "device", !.Up = TRUE,
                              !.HardwareAddr = "mac-" \o name]
Vlan(name, parent, tag) == [NilLink EXCEPT !.Name = name, !.Type = "vlan", !.Up = TRUE,
                                           !.ParentIndex = parent, !.VlanId = tag,
                                           !.HardwareAddr = "kernel"]
Bridge(name, up) == [NilLink EXCEPT !.Name = name, !.Type = "bridge", !.Up = up,
                                    !.HardwareAddr = "kernel"]
Bond(name) == [NilLink EXCEPT !.Name = name, !.Type = "bond", !.Up = TRUE,
                              !.HardwareAddr = "kernel"]

\* the addresses of the configured device: an optional loopback address and
\* n addresses of the host's network, labelled with the device's name
DeviceAddrs(name, n, lo) ==
    (IF lo THEN <<[IP |-> LoopbackIP, Label |-> name]>> ELSE <<>>)
    \o [k \in 1..n |-> [IP |-> DeviceIP(k), Label |-> name]]

\* the routes through the configured device: the default route, the route of
\* the connected network, then routes to further networks
DeviceRoute(j, index) ==
    CASE j = 1 -> [Dst |-> "default", Gw |-> "10.0.0.1", Src |-> "", Scope |-> "universe",
                   Priority |-> 100, LinkIndex |-> index]
      [] j = 2 -> [Dst |-> "10.0.0.0/24", Gw |-> "", Src |-> DeviceIP(1), Scope |-> "link",
                   Priority |-> 0, LinkIndex |-> index]
      [] OTHER -> [Dst |-> Sprintf("10.", j) \o ".0.0/16", Gw |-> "10.0.0.1", Src |-> "",
                   Scope |-> "universe", Priority |-> 0, LinkIndex |-> index]

\* what may already exist for VLAN tag 5 when the driver starts
VlanScenarios == {"none", "user", "userBridged", "userBonded",
                  "otherParent", "otherTag", "notVlan"}

\* h = [device, nAddrs, lo, nRoutes, bridge, vlan]
HostKernel(h) ==
    LET l1 == AddLink(AddLink(<<>>, Phys("eth1")), Phys("eth0"))
        l2 == IF h.device = "eth1.12" THEN AddLink(l1, Vlan("eth1.12", 1, 12)) ELSE l1
        di == IF h.device = "eth1.12" THEN 3 ELSE 1
        l3 == IF h.bridge = "none" THEN l2
              ELSE AddLink(l2, Bridge(DefaultBridge, h.bridge # "down"))
        bi == Len(l3)
        l4 == [l3 EXCEPT ![di].Addrs = DeviceAddrs(h.device, h.nAddrs, h.lo),
                         ![di].MasterIndex = IF h.bridge = "enslaved" THEN bi ELSE 0]
        l5 == CASE h.vlan = "none" -> l4
                [] h.vlan = "user" -> AddLink(l4, Vlan("eth1.5", 1, 5))
                [] h.vlan = "userBridged" ->
                      AddLink(AddLink(l4, Bridge("br5", TRUE)),
                              [Vlan("eth1.5", 1, 5) EXCEPT !.MasterIndex = Len(l4) + 1])
                [] h.vlan = "userBonded" ->
                      AddLink(AddLink(l4, Bond("bond0")),
                              [Vlan("eth1.5", 1, 5) EXCEPT !.MasterIndex = Len(l4) + 1])
                [] h.vlan = "otherParent" -> AddLink(l4, Vlan(Sprintf(VlanPrefix, 5), 2, 5))
                [] h.vlan = "otherTag" -> AddLink(l4, Vlan(Sprintf(VlanPrefix, 5), 1, 7))
                [] h.vlan = "notVlan" -> AddLink(l4, Phys(Sprintf(VlanPrefix, 5)))
    IN  [links |-> l5, routes |-> [j \in 1..h.nRoutes |-> DeviceRoute(j, di)]]

\* hosts that differ in what Init finds on the configured device
MigrationHosts ==
    {h \in [device : {"eth1", "eth1.12"}, nAddrs : 0..MaxAddrs, lo : BOOLEAN,
            nRoutes : 0..MaxRoutes, bridge : {"none", "down", "enslaved"}, vlan : {"none"}] :
        /\ (h.nRoutes > 0 => h.nAddrs > 0)
        /\ (h.bridge = "enslaved" => h.nAddrs = 0)
        /\ (h.lo => h.nAddrs <= 1 /\ h.device = "eth1")}

\* hosts that differ in what exists for VLAN tag 5
\* (the device has been enslaved to the default bridge already and carries no
\* address, so that Init changes nothing but the driver's fields)
VlanHosts ==
    {h \in [device : {"eth1", "eth1.12"}, nAddrs : {0}, lo : {FALSE}, nRoutes : {0},
            bridge : {"none", "enslaved"}, vlan : VlanScenarios] :
        h.bridge = "none" => h.vlan = "none" /\ h.device = "eth1"}

\* the configurations: the switch modes, and in bridge mode the three values
\* of disable_default_bridge
RawConfs ==
    {c \in [Device : {"eth1", "eth1.12"}, Switch : {"", "macvlan", "ipvlan", "pure"},
            DisableDefaultBridge : {"unset", "false", "true"},
            DefaultBridgeName : {""}, BridgeNamePrefix : {""}, VlanNamePrefix : {""}] :
        c.Switch # "" => c.DisableDefaultBridge = "unset"}

Procs == 1..NumProcs

ServerIdle ==
    /\ saved = [c \in ContainerIDs |-> NoEntry]
    /\ installed = [c \in ContainerIDs |-> {}]
    /\ conn = [c \in Conns |-> IdleConn]
    /\ expect = [c \in ContainerIDs |-> FALSE]
    /\ consumed = [c \in ContainerIDs |-> 0]

\* a start is a host and the configuration loaded on it
MigrationStarts == {s \in MigrationHosts \X RawConfs : s[2].Device = s[1].device}

\* every scenario in every mode on eth1, and in bridge mode with a VLAN device
\* as the configured device
VlanStarts ==
    {s \in VlanHosts \X RawConfs :
        /\ s[2].Device = s[1].device
        /\ s[2].DisableDefaultBridge = "unset"
        /\ (s[1].device = "eth1" \/ s[2].Switch = "")}

\* the hosts of the concurrent callers: nothing exists for the tags, or a
\* VLAN device of tag 5 that no bridge holds; the configured device is eth1
\* or, in bridge mode, the VLAN device eth1.12
ConcStarts ==
    {s \in VlanStarts : /\ s[1].bridge = "enslaved"
                        /\ s[1].vlan \in {"none", "user"}
                        /\ s[2].Switch \in {"", "pure"}}
\* the configurations LoadConf is called with again while the callers run
ConcConfs == {s[2] : s \in ConcStarts}

\* the driver right after LoadConf, on some host
DriverLoaded(Starts, Builds) ==
    /\ \E s \in Starts :
          /\ conf = LoadConf(s[2])
          /\ kern = HostKernel(s[1])
    /\ build \in Builds
    /\ drv = [vlanParentIndex |-> 0, DeviceIndex |-> 0]

\* the fields of the driver as lines 73-80 set them for the device
Resolved(device) ==
    [DeviceIndex |-> device.Index,
     vlanParentIndex |-> IF device.Type = "vlan" THEN device.ParentIndex ELSE device.Index]

\* n callers, none of them in the driver
Callers(n) ==
    /\ mutex = 0
    /\ proc = [p \in 1..n |-> IdleProc]

\* the dispatcher alone: requests on NumConns connections
InitServer ==
    /\ ServerIdle /\ Callers(1)
    /\ conf = LoadConf(CHOOSE c \in RawConfs : c.Device = "eth1" /\ c.Switch = "" /\ c.DisableDefaultBridge = "unset")
    /\ kern = HostKernel(CHOOSE h \in VlanHosts : h.device = "eth1" /\ h.vlan = "none")
    /\ build = FALSE
    /\ drv = [vlanParentIndex |-> 0, DeviceIndex |-> 0]
NextServer ==
    \E c \in Conns :
        \/ Request(c) \/ RCmdAdd(c) \/ RSavePort(c) \/ RSetupPortMapping(c)
        \/ RCmdDel(c) \/ RConsumePort(c) \/ RCleanPortMapping(c)
SpecServer == InitServer /\ [][NextServer]_vars

\* Init alone, called again and again by one caller, on the hosts that differ
\* in what it finds on the device
InitMigration == ServerIdle /\ DriverLoaded(MigrationStarts, BOOLEAN) /\ Callers(1)
NextMigration ==
    \E p \in DOMAIN proc :
        \/ IDevice(p) \/ ILinkByName(p) \/ IDeviceIndex(p) \/ IParentIndex(p)
        \/ IParentOfVlan(p) \/ IMacVlanMode(p) \/ IIPVlanMode(p) \/ IPureMode(p)
        \/ IPureDevice(p) \/ IPure(p) \/ IDisableSet(p) \/ IDisableValue(p) \/ IAddrList(p)
        \/ IBriName(p) \/ IVerify(p)
        \/ IBridgeName(p) \/ IBridgeLookup(p) \/ IBridgeAdd(p) \/ IBridgeRelook(p)
        \/ IBridgeUp(p) \/ IRouteList(p) \/ IAddrDel(p) \/ IAddrAdd(p)
        \/ IMasterName(p) \/ ISetMaster(p)
        \/ IRouteAdd(p) \/ IDeferredAddrAdd(p) \/ IDeferredRouteAdd(p)
SpecMigration == InitMigration /\ [][NextMigration]_vars

\* the driver's three operations in any order by one caller, on the hosts
\* that differ in what exists for a VLAN tag (the device carries no address
\* there, so Init stops at line 111)
InitVlan == ServerIdle /\ DriverLoaded(VlanStarts, {FALSE}) /\ Callers(1)
NextVlan ==
    \E p \in DOMAIN proc :
        \/ IDevice(p) \/ ILinkByName(p) \/ IDeviceIndex(p) \/ IParentIndex(p)
        \/ IParentOfVlan(p) \/ IMacVlanMode(p) \/ IIPVlanMode(p) \/ IPureMode(p)
        \/ IPureDevice(p) \/ IPure(p) \/ IDisableSet(p) \/ IAddrList(p) \/ IBriName(p) \/ IVerify(p)
        \/ CCall(p, VlanIds) \/ NPureMode(p) \/ NDefaultBridgeName(p)
        \/ CLock(p) \/ CLinkList(p) \/ CParentIndex(p) \/ CRecordFound(p)
        \/ CVlanIfName(p) \/ CLookupVlan(p) \/ CVlanParent(p) \/ CAddVlan(p)
        \/ CRelookVlan(p) \/ CUpVlan(p) \/ CRecordVlan(p) \/ CGetVlanMaster(p)
        \/ CBridgeIfName(p) \/ CLookupBridge(p) \/ CAddBridge(p) \/ CRelookBridge(p)
        \/ CSetMaster(p) \/ CUpBridge(p) \/ CPureMode(p) \/ CProxyArp(p) \/ CUnlock(p)
SpecVlan == InitVlan /\ [][NextVlan]_vars

\* BridgeNameForVlan alone, for every mode and for configured and default
\* names, while LoadConf is called again; the tags are values of a uint16
NameTags == {0, 1, 7, 10, 100, 4094, 65535}
NameConfs ==
    [Device : {"eth1"}, Switch : {"", "macvlan", "ipvlan", "pure"},
     DisableDefaultBridge : {"unset"}, DefaultBridgeName : {"", "br0"},
     BridgeNamePrefix : {"", "br"}, VlanNamePrefix : {""}]

InitNames ==
    /\ ServerIdle /\ Callers(1)
    /\ conf \in {LoadConf(c) : c \in NameConfs}
    /\ kern = HostKernel(CHOOSE h \in VlanHosts : h.device = "eth1" /\ h.vlan = "none")
    /\ build = FALSE
    /\ drv = [vlanParentIndex |-> 0, DeviceIndex |-> 0]
NextNames ==
    \/ \E p \in DOMAIN proc :
        \/ NBridgeName(p, NameTags) \/ NPureMode(p) \/ NDefaultBridgeName(p)
        \/ NBridgeNamePrefix(p)
    \/ Reload(NameConfs)
SpecNames == InitNames /\ [][NextNames]_vars

\* NumProcs concurrent callers, each calling Init, CreateBridgeAndVlanDevice
\* or MaybeCreateVlanDevice once, on a driver that an Init has initialised,
\* while LoadConf is called again
InitConc ==
    /\ ServerIdle /\ Callers(NumProcs)
    /\ \E s \in ConcStarts :
          /\ conf = LoadConf(s[2])
          /\ kern = HostKernel(s[1])
    /\ build = FALSE
    /\ drv = Resolved(kern.links[LinkByName(Machine(kern, {}), conf.Device)])
NextConc ==
    \/ \E p \in DOMAIN proc :
        \/ (At(p, "idle") /\ IDevice(p))
        \/ ILinkByName(p) \/ IDeviceIndex(p) \/ IParentIndex(p)
        \/ IParentOfVlan(p) \/ IMacVlanMode(p) \/ IIPVlanMode(p) \/ IPureMode(p)
        \/ IPureDevice(p) \/ IPure(p) \/ IDisableSet(p) \/ IAddrList(p) \/ IBriName(p) \/ IVerify(p)
        \/ (At(p, "idle") /\ CCall(p, VlanIds)) \/ NPureMode(p) \/ NDefaultBridgeName(p)
        \/ CLock(p) \/ CLinkList(p) \/ CParentIndex(p) \/ CRecordFound(p)
        \/ CVlanIfName(p) \/ CLookupVlan(p) \/ CVlanParent(p) \/ CAddVlan(p)
        \/ CRelookVlan(p) \/ CUpVlan(p) \/ CRecordVlan(p) \/ CGetVlanMaster(p)
        \/ CBridgeIfName(p) \/ CLookupBridge(p) \/ CAddBridge(p) \/ CRelookBridge(p)
        \/ CSetMaster(p) \/ CUpBridge(p) \/ CPureMode(p) \/ CProxyArp(p) \/ CUnlock(p)
    \/ Reload(ConcConfs)
SpecConc == InitConc /\ [][NextConc]_vars


(***************************************************************************)
(* Properties of the request dispatcher (SpecServer).                      *)
(***************************************************************************)
\* no connection is in the middle of a request
Quiescent == \A c \in Conns : conn[c].pc \in {"idle", "done"}
\* connection c makes a step
Moves(c) == conn'[c] # conn[c]
\* connection c has returned from a request for container id
Replied(c, command, id) ==
    conn[c].pc = "done" /\ conn[c].Command = command /\ conn[c].ContainerID = id

\* C1: after any sequence of ADD and DEL requests a persisted entry exists for
\* a container ID if and only if the container's most recent successful ADD
\* carried a non-empty port spec and a valid IPv4 result and no DEL has removed
\* the entry since; an ADD that fails for want of a usable IPv4, or an ADD with
\* an empty port spec, leaves no entry.
C1_EntryIffMappedAdd ==
    Quiescent => \A id \in ContainerIDs : (saved[id] # NoEntry) <=> expect[id]

\* C3: DEL is idempotent: a DEL for a container whose entry an earlier DEL
\* consumed, or that has no entry at all, returns no error when the delegate's
\* teardown succeeds.
C3_SecondDelSucceeds ==
    [][\A c \in Conns :
          (/\ conn[c].pc = "ConsumePort" /\ Moves(c)
           /\ (consumed[conn[c].ContainerID] >= 1 \/ saved[conn[c].ContainerID] = NoEntry))
              => /\ conn'[c].pc = "done" /\ conn'[c].err = Nil
                 /\ saved' = saved /\ installed' = installed]_vars

\* a second DEL has returned after a first one consumed the entry
C3_Witness ==
    \E c \in Conns, id \in ContainerIDs :
        /\ consumed[id] = 2
        /\ Replied(c, COMMAND_DEL, id)
        /\ conn[c].calls = <<"cmdDel", "ConsumePort">>
        /\ conn[c].err = Nil

\* the collaborators that persist, install, consume or clean up port mappings
MappingCalls == {"ParsePorts", "SavePort", "SetupPortMapping", "ConsumePort", "CleanPortMapping"}

\* C12: dispatcher sequencing: in every ADD, port mappings are persisted and
\* installed only after the delegate's Add returned success, never when it
\* returned an error; in every DEL, the persisted mapping is consumed and the
\* installed mappings are cleaned up only after the delegate's Del returned
\* success, and a failed delegate Del leaves the persisted mapping untouched.
C12_DelegateFirst ==
    [][\A c \in Conns : Moves(c) =>
          LET r == conn'[c]
          IN  /\ \A i \in 1..Len(r.calls) :
                    r.calls[i] \in MappingCalls =>
                        /\ i > 1
                        /\ r.delegate = Nil
                        /\ r.calls[1] = IF r.Command = COMMAND_ADD THEN "cmdAdd" ELSE "cmdDel"
                        /\ r.calls[i] \in
                               IF r.Command = COMMAND_ADD
                               THEN {"ParsePorts", "SavePort", "SetupPortMapping"}
                               ELSE {"ConsumePort", "CleanPortMapping"}
              /\ (saved' # saved \/ installed' # installed) =>
                    r.delegate = Nil /\ r.calls[Len(r.calls)] \in MappingCalls
              /\ r.delegate \notin {Nil, NotCalled} =>
                    /\ r.pc = "done" /\ r.err = r.delegate
                    /\ Len(r.calls) = 1
                    /\ saved' = saved /\ installed' = installed]_vars

\* the delegate's teardown failed for a container with a persisted entry and
\* an installed mapping, and both are still there
C12_Witness ==
    \E c \in Conns, id \in ContainerIDs :
        /\ Quiescent
        /\ Replied(c, COMMAND_DEL, id)
        /\ conn[c].delegate = EIO /\ conn[c].err = EIO
        /\ conn[c].calls = <<"cmdDel">>
        /\ saved[id] = "8080:80/tcp"
        /\ installed[id] # {}

\* C13: a request whose command is neither ADD nor DEL returns an error with
\* no side effects: the delegate is not invoked, the store is neither written
\* nor consumed, and no mapping is installed or cleaned up.
C13_UnknownCommand ==
    [][\A c \in Conns :
          (Moves(c) /\ conn'[c].Command \notin {COMMAND_ADD, COMMAND_DEL}) =>
              /\ conn[c].pc \in {"idle", "done"}
              /\ conn'[c].pc = "done"
              /\ conn'[c].err # Nil
              /\ conn'[c].calls = <<>>
              /\ conn'[c].delegate = NotCalled
              /\ saved' = saved /\ installed' = installed]_vars

\* an unknown command was refused for a container with a persisted entry and
\* an installed mapping
C13_Witness ==
    \E c \in Conns, id \in ContainerIDs :
        /\ Quiescent
        /\ conn[c].pc = "done" /\ conn[c].ContainerID = id
        /\ conn[c].Command \notin {COMMAND_ADD, COMMAND_DEL}
        /\ conn[c].err = "unkown command"
        /\ saved[id] = "8080:80/tcp"
        /\ installed[id] # {}

\* C19: whenever a DEL returns success, no installed port mapping of the
\* container remains, also when an earlier DEL for the container failed while
\* cleaning up after it had consumed the persisted entry.
C19_DelLeavesNothingInstalled ==
    [][\A c \in Conns :
          (/\ Moves(c) /\ conn'[c].pc = "done" /\ conn'[c].Command = COMMAND_DEL
           /\ conn'[c].err = Nil /\ conn[c].pc \notin {"idle", "done"})
              => installed'[conn'[c].ContainerID] = {}]_vars



(***************************************************************************)
(* Properties of Init's address migration (SpecMigration).  One caller     *)
(* calls Init again and again: when it has returned, proc[p].k0 is the     *)
(* kernel it was called on and kern the kernel it left.                    *)
(***************************************************************************)
\* caller p has returned from operation op
Done(p, op) == proc[p].pc = "done" /\ proc[p].op = op
\* the link of kernel k named name (NilLink when there is none)
LinkNamed(k, name) ==
    IF \E i \in 1..Len(k.links) : k.links[i].Name = name
    THEN k.links[CHOOSE i \in 1..Len(k.links) : k.links[i].Name = name]
    ELSE NilLink
\* the addresses on a link, and those that are not loopback addresses
IPsOf(l) == {l.Addrs[j].IP : j \in 1..Len(l.Addrs)}
NonLoopbackIPsOf(l) == {ip \in IPsOf(l) : ~IsLoopback(ip)}
RoutesVia(k, index) == {k.routes[j] : j \in 1..Len(k.routes)} \cap
                       {r \in {k.routes[j] : j \in 1..Len(k.routes)} : r.LinkIndex = index}
Issued(calls, op) == \E i \in 1..Len(calls) : calls[i].op = op

\* Init is about to migrate: bridge mode, default bridge not disabled, the
\* configured device carries a non-loopback address
MigrationCase(k, cf) ==
    /\ cf.Switch \notin {"macvlan", "ipvlan", "pure"}
    /\ cf.DisableDefaultBridge # "true"
    /\ NonLoopbackIPsOf(LinkNamed(k, cf.Device)) # {}

\* route r of the device is in kernel k with its link index set to index and
\* its gateway, destination, source and scope kept
Repointed(k, r, index) ==
    \E j \in 1..Len(k.routes) :
        /\ k.routes[j].LinkIndex = index
        /\ k.routes[j].Gw = r.Gw /\ k.routes[j].Dst = r.Dst
        /\ k.routes[j].Src = r.Src /\ k.routes[j].Scope = r.Scope

\* after Init on kernel k0 left kernel k1: the bridge exists and is up,
\* carries the addresses ips, the routes of the device point at it, the
\* device has no non-loopback address and is enslaved to the bridge
Migrated(k0, k1, cf, ips) ==
    LET dev0 == LinkNamed(k0, cf.Device)
        dev1 == LinkNamed(k1, cf.Device)
        bri == LinkNamed(k1, cf.DefaultBridgeName)
    IN  /\ bri # NilLink /\ bri.Type = "bridge" /\ bri.Up
        /\ ips \subseteq IPsOf(bri)
        /\ \A r \in RoutesVia(k0, dev0.Index) : Repointed(k1, r, bri.Index)
        /\ NonLoopbackIPsOf(dev1) = {}
        /\ dev1.MasterIndex = bri.Index

\* C2: address migration is all-or-nothing: Init returns success with all the
\* addresses on the bridge, all the routes pointing at the bridge and the
\* device enslaved, or it returns an error and, when one step was made to
\* fail, every address the device had is on the device again.
C2_AllOrNothing ==
    \A p \in DOMAIN proc :
        (Done(p, "Init") /\ MigrationCase(proc[p].k0, conf)) =>
            LET dev0 == LinkNamed(proc[p].k0, conf.Device)
                dev1 == LinkNamed(kern, conf.Device)
            IN  IF proc[p].err = Nil
                THEN Migrated(proc[p].k0, kern, conf, NonLoopbackIPsOf(dev0))
                ELSE NumInjected(proc[p].calls) = 1 =>
                         NonLoopbackIPsOf(dev0) \subseteq IPsOf(dev1)

\* C8 as stated: when Init returns success the default bridge exists and is up
\* and carries every address the device had, every route of the device has its
\* link index set to the bridge, the device has no non-loopback address and
\* its master is the bridge.
C8_BridgeCarriesEveryAddress ==
    \A p \in DOMAIN proc :
        (Done(p, "Init") /\ proc[p].err = Nil /\ MigrationCase(proc[p].k0, conf)) =>
            Migrated(proc[p].k0, kern, conf, IPsOf(LinkNamed(proc[p].k0, conf.Device)))

\* C8, amended: when Init returns success the default bridge exists and is up
\* and carries every non-loopback address the device had (a loopback address
\* stays on the device), every route of the device has its link index set to
\* the bridge with gateway, destination, source and scope kept, the device has
\* no non-loopback address and its master is the bridge.
C8_InitPostcondition ==
    \A p \in DOMAIN proc :
        (Done(p, "Init") /\ proc[p].err = Nil /\ MigrationCase(proc[p].k0, conf)) =>
            Migrated(proc[p].k0, kern, conf,
                     NonLoopbackIPsOf(LinkNamed(proc[p].k0, conf.Device)))

\* Init has moved MaxAddrs addresses and repointed a route, creating the bridge
C8_Witness ==
    \E p \in DOMAIN proc :
        /\ Done(p, "Init") /\ proc[p].err = Nil
        /\ Issued(proc[p].calls, "LinkAdd") /\ Issued(proc[p].calls, "RouteAdd")
        /\ Cardinality(IPsOf(LinkNamed(kern, conf.DefaultBridgeName))) = MaxAddrs
        /\ LinkNamed(kern, conf.Device).MasterIndex = LinkNamed(kern, conf.DefaultBridgeName).Index
        /\ RoutesVia(kern, LinkNamed(kern, conf.DefaultBridgeName).Index) # {}

\* the calls of Init's deferred functions: an address added to the device, a
\* route through the device
Compensation(c, devIndex) == c.op \in {"AddrAdd", "RouteAdd"} /\ c.link = devIndex
\* the place of a forward call in the migration
Phase(c) ==
    CASE c.op = "LinkAdd" -> 1
      [] c.op = "LinkSetUp" -> 2
      [] c.op \in {"AddrDel", "AddrAdd"} -> 3
      [] c.op = "LinkSetMaster" -> 4
      [] c.op = "RouteAdd" -> 5
      [] OTHER -> 0
NumIssued(calls, op) == Cardinality({i \in 1..Len(calls) : calls[i].op = op})
\* the error Init returns when a forward call of the given kind fails
StepError(op) ==
    CASE op = "LinkAdd" -> "Failed to add device"
      [] op = "LinkSetUp" -> "Failed to set up bridge device"
      [] op = "AddrDel" -> "Failed to remove v4address from device"
      [] op = "AddrAdd" -> "Failed to add v4address to bridge device"
      [] op = "LinkSetMaster" -> "Failed to add device to bridge device"
      [] op = "RouteAdd" -> "failed to add route"
      [] OTHER -> "?"

\* C15 as stated: the bridge is brought up only after the addresses have been
\* moved, the device enslaved and the routes re-added.
C15_BridgeUpLast ==
    \A p \in DOMAIN proc :
        (Done(p, "Init") /\ MigrationCase(proc[p].k0, conf)) =>
            LET calls == proc[p].calls
                dev == LinkNamed(proc[p].k0, conf.Device)
            IN  /\ proc[p].err = Nil => Issued(calls, "LinkSetUp")
                /\ \A i \in 1..Len(calls) :
                      calls[i].op = "LinkSetUp" =>
                          /\ \E j \in 1..(i - 1) : calls[j].op = "LinkSetMaster"
                          /\ \A j \in 1..Len(calls) :
                                (Phase(calls[j]) \in {3, 4, 5} /\ ~Compensation(calls[j], dev.Index))
                                    => j < i

\* C15, amended: the migration obtains or creates the bridge, brings it up,
\* snapshots the routes, moves each address (deleted from the device, then
\* added to the bridge), enslaves the device and re-adds the routes on the
\* bridge, in this order: the bridge is up before any address is moved.
C15_MigrationOrder ==
    \A p \in DOMAIN proc :
        (Done(p, "Init") /\ MigrationCase(proc[p].k0, conf)) =>
            LET calls == proc[p].calls
                dev == LinkNamed(proc[p].k0, conf.Device)
                bri == LinkNamed(kern, conf.DefaultBridgeName)
                fwd(i) == ~Compensation(calls[i], dev.Index)
            IN  /\ \A i, j \in 1..Len(calls) :
                      (i < j /\ fwd(i) /\ fwd(j)) =>
                          /\ Phase(calls[i]) >= 1
                          /\ Phase(calls[i]) <= Phase(calls[j])
                          /\ Phase(calls[i]) \in {1, 2, 4} => Phase(calls[i]) < Phase(calls[j])
                /\ \A i \in 1..Len(calls) :
                      /\ calls[i].op = "LinkAdd" => calls[i].arg = conf.DefaultBridgeName
                      /\ calls[i].op = "LinkSetUp" => calls[i].link = bri.Index
                      /\ calls[i].op = "AddrDel" => calls[i].link = dev.Index
                      /\ calls[i].op = "LinkSetMaster" =>
                            calls[i].link = dev.Index /\ calls[i].arg = conf.DefaultBridgeName
                      /\ (calls[i].op = "AddrAdd" /\ fwd(i)) =>
                            /\ calls[i].link = bri.Index
                            /\ i > 1 /\ calls[i - 1].op = "AddrDel"
                            /\ calls[i - 1].arg = calls[i].arg
                      /\ (calls[i].op = "RouteAdd" /\ fwd(i)) => calls[i].link = bri.Index
                /\ proc[p].err = Nil =>
                      /\ NumIssued(calls, "LinkSetUp") = 1
                      /\ NumIssued(calls, "LinkSetMaster") = 1
                      /\ NumIssued(calls, "AddrDel") = Cardinality(NonLoopbackIPsOf(dev))
                      /\ NumIssued(calls, "AddrAdd") = Cardinality(NonLoopbackIPsOf(dev))
                      /\ NumIssued(calls, "RouteAdd") = Cardinality(RoutesVia(proc[p].k0, dev.Index))

\* Init has created the bridge, brought it up as its second call, moved
\* MaxAddrs addresses, enslaved the device and re-added MaxRoutes routes
C15_Witness ==
    \E p \in DOMAIN proc :
        /\ Done(p, "Init") /\ proc[p].err = Nil
        /\ Len(proc[p].calls) = 3 + 2 * MaxAddrs + MaxRoutes
        /\ proc[p].calls[1].op = "LinkAdd" /\ proc[p].calls[2].op = "LinkSetUp"
        /\ proc[p].calls[3].op = "AddrDel"
        /\ proc[p].calls[3 + 2 * MaxAddrs].op = "LinkSetMaster"
        /\ proc[p].calls[Len(proc[p].calls)].op = "RouteAdd"

\* C16: rollback errors are never escalated: when a step of the migration
\* fails, Init returns the error of that step whether the deferred re-adds
\* succeed or fail, and no forward step is executed after the failure; the
\* deferred functions do nothing when Init succeeds.
C16_RollbackNotEscalated ==
    \A p \in DOMAIN proc :
        (Done(p, "Init") /\ MigrationCase(proc[p].k0, conf)) =>
            LET calls == proc[p].calls
                dev == LinkNamed(proc[p].k0, conf.Device)
                failed == {i \in 1..Len(calls) : calls[i].injected}
            IN  /\ failed # {} =>
                      LET k == CHOOSE i \in failed : \A j \in failed : i <= j
                      IN  /\ ~Compensation(calls[k], dev.Index)
                          /\ proc[p].err = StepError(calls[k].op)
                          /\ \A j \in (k + 1)..Len(calls) : Compensation(calls[j], dev.Index)
                /\ proc[p].err = Nil =>
                      \A i \in 1..Len(calls) : ~Compensation(calls[i], dev.Index)
                /\ (proc[p].err # Nil /\ \E i \in 1..Len(calls) : Compensation(calls[i], dev.Index))
                      => proc[p].err \in {StepError(op) : op \in {"AddrDel", "AddrAdd", "LinkSetMaster", "RouteAdd"}}

\* a route could not be re-added on the bridge; of the deferred calls one was
\* made to fail and another put an address back on the device
C16_Witness ==
    \E p \in DOMAIN proc :
        /\ Done(p, "Init") /\ proc[p].err = "failed to add route"
        /\ NumInjected(proc[p].calls) = 2
        /\ proc[p].calls[Len(proc[p].calls)].op = "RouteAdd"
        /\ \E i \in 1..Len(proc[p].calls) :
              /\ proc[p].calls[i].op = "AddrAdd" /\ ~proc[p].calls[i].injected
              /\ proc[p].calls[i].link = LinkNamed(kern, conf.Device).Index
              /\ proc[p].calls[i].arg \in IPsOf(LinkNamed(kern, conf.Device))

\* Init stops before the default bridge: macvlan, ipvlan or pure mode, or
\* bridge mode with the default bridge disabled
NoBridgeCase(cf) ==
    \/ cf.Switch \in {"macvlan", "ipvlan", "pure"}
    \/ cf.DisableDefaultBridge = "true"

\* C17: in macvlan, ipvlan and pure mode, and in bridge mode with the default
\* bridge disabled, Init creates no bridge, moves no address or route and
\* enslaves no device: the kernel's links and routes are as before, and the
\* driver's DeviceIndex is the device's index and vlanParentIndex the device's
\* parent index when the device is a VLAN sub-interface, else its own index.
C17_NoBridgeModes ==
    \A p \in DOMAIN proc :
        (/\ Done(p, "Init") /\ NoBridgeCase(conf)
         /\ LinkNamed(proc[p].k0, conf.Device) # NilLink) =>
            LET dev == LinkNamed(proc[p].k0, conf.Device)
            IN  /\ kern = proc[p].k0
                /\ \A i \in 1..Len(proc[p].calls) : Phase(proc[p].calls[i]) = 0
                /\ drv = [DeviceIndex |-> dev.Index,
                          vlanParentIndex |-> IF dev.Type = "vlan" THEN dev.ParentIndex
                                              ELSE dev.Index]
                /\ conf.Switch # "pure" => proc[p].err = Nil /\ proc[p].calls = <<>>

\* Init has run in macvlan mode on the VLAN device eth1.12, which carries
\* MaxAddrs addresses, on a host without the default bridge
C17_Witness ==
    \E p \in DOMAIN proc :
        /\ Done(p, "Init") /\ proc[p].err = Nil /\ conf.Switch = "macvlan"
        /\ conf.Device = "eth1.12"
        /\ drv = [DeviceIndex |-> 3, vlanParentIndex |-> 1]
        /\ LinkNamed(kern, conf.DefaultBridgeName) = NilLink
        /\ Cardinality(NonLoopbackIPsOf(LinkNamed(kern, conf.Device))) = MaxAddrs
        /\ LinkNamed(kern, conf.Device).MasterIndex = 0

\* C18: Init is idempotent after a committed migration: an Init that follows a
\* successful Init returns success and changes no link and no route; and on a
\* device without non-loopback address Init issues no call and succeeds
\* exactly when the device's master index is the default bridge's index.
C18_InitIdempotent ==
    \A p \in DOMAIN proc :
        (/\ Done(p, "Init") /\ ~NoBridgeCase(conf)
         /\ LinkNamed(proc[p].k0, conf.Device) # NilLink) =>
            LET dev == LinkNamed(proc[p].k0, conf.Device)
                bri == LinkNamed(proc[p].k0, conf.DefaultBridgeName)
            IN  /\ proc[p].prev.again =>
                      /\ proc[p].err = Nil /\ proc[p].calls = <<>>
                      /\ kern = proc[p].k0 /\ drv.DeviceIndex = proc[p].prev.DeviceIndex
                /\ NonLoopbackIPsOf(dev) = {} =>
                      /\ proc[p].calls = <<>> /\ kern = proc[p].k0
                      /\ (proc[p].err = Nil) <=> (bri # NilLink /\ dev.MasterIndex = bri.Index)

\* an Init after the migration of MaxAddrs addresses has found the device
\* enslaved to the bridge and touched nothing
C18_Witness ==
    \E p \in DOMAIN proc :
        /\ Done(p, "Init") /\ proc[p].err = Nil /\ proc[p].calls = <<>>
        /\ proc[p].prev.again
        /\ ~NoBridgeCase(conf)
        /\ Cardinality(IPsOf(LinkNamed(kern, conf.DefaultBridgeName))) = MaxAddrs
        /\ NonLoopbackIPsOf(LinkNamed(kern, conf.Device)) = {}
        /\ LinkNamed(kern, conf.Device).MasterIndex = LinkNamed(kern, conf.DefaultBridgeName).Index


(***************************************************************************)
(* Properties of VLAN provisioning (SpecVlan).  One caller calls the       *)
(* driver's operations in any order, one after the other.                  *)
(***************************************************************************)
Links(k) == {k.links[i] : i \in 1..Len(k.links)}
\* the VLAN sub-interfaces of kernel k with tag t on parent p
VlansOf(k, p, t) == {l \in Links(k) : l.Type = "vlan" /\ l.ParentIndex = p /\ l.VlanId = t}
\* the bridges of kernel k that hold a VLAN sub-interface of tag t on parent p
BridgesOf(k, p, t) ==
    {b \in Links(k) : b.Type = "bridge" /\ \E v \in VlansOf(k, p, t) : v.MasterIndex = b.Index}
NoInjected(calls) == \A i \in 1..Len(calls) : ~calls[i].injected
Tags == VlanIds \cup {12}

\* C4: in every reachable kernel state at most one VLAN sub-interface and at
\* most one bridge exist per (parent interface, VLAN tag) pair, and no two
\* devices carry the bridge name of a tag.
C4_NoDuplicateDevices ==
    \A p \in 1..Len(kern.links), t \in Tags :
        /\ Cardinality(VlansOf(kern, p, t)) <= 1
        /\ Cardinality(BridgesOf(kern, p, t)) <= 1
        /\ Cardinality({l \in Links(kern) : l.Name = Sprintf(conf.BridgeNamePrefix, t)}) <= 1

\* a call for a tag the driver provisioned earlier found vlan5 and docker5 and
\* created nothing
C4_Witness ==
    \E p \in DOMAIN proc :
        /\ Done(p, "Create") /\ proc[p].vlanId = 5 /\ proc[p].err = Nil
        /\ proc[p].calls = <<>>
        /\ proc[p].name = "docker5"
        /\ VlansOf(kern, drv.vlanParentIndex, 5) = {LinkNamed(kern, "vlan5")}
        /\ BridgesOf(kern, drv.vlanParentIndex, 5) = {LinkNamed(kern, "docker5")}

\* C6: when the VLAN sub-interface of the requested tag on the driver's parent
\* has a master of kind bridge, CreateBridgeAndVlanDevice returns that
\* bridge's name and issues no mutating call: the kernel is unchanged.
C6_ReuseShortCircuit ==
    \A p \in DOMAIN proc, t \in VlanIds \ {0} :
        \A v \in VlansOf(proc[p].k0, drv.vlanParentIndex, t) :
            (/\ Done(p, "Create") /\ proc[p].vlanId = t
             /\ v.MasterIndex \in 1..Len(proc[p].k0.links)
             /\ proc[p].k0.links[v.MasterIndex].Type = "bridge")
            => /\ proc[p].err = Nil
               /\ proc[p].name = proc[p].k0.links[v.MasterIndex].Name
               /\ proc[p].calls = <<>>
               /\ kern = proc[p].k0

\* CreateBridgeAndVlanDevice returned the bridge the user had put eth1.5 in
C6_Witness ==
    \E p \in DOMAIN proc :
        /\ Done(p, "Create") /\ proc[p].vlanId = 5 /\ proc[p].err = Nil
        /\ proc[p].calls = <<>>
        /\ proc[p].name = "br5"
        /\ \E v \in VlansOf(proc[p].k0, drv.vlanParentIndex, 5) :
               v.Name = "eth1.5" /\ v.MasterIndex = LinkNamed(proc[p].k0, "br5").Index

\* C7: obtain-or-create of the VLAN sub-interface is idempotent: invoked again
\* with the same tag right after it succeeded, it creates no interface and,
\* unless the environment fails a call, succeeds with the same DeviceIndex.
C7_ObtainTwice ==
    \A p \in DOMAIN proc :
        (Done(p, "Maybe") /\ proc[p].vlanId # 0 /\ proc[p].prev.again)
        => /\ ~Issued(proc[p].calls, "LinkAdd")
           /\ Len(kern.links) = Len(proc[p].k0.links)
           /\ (proc[p].err = Nil => drv.DeviceIndex = proc[p].prev.DeviceIndex)
           /\ (NoInjected(proc[p].calls) => proc[p].err = Nil)

\* the second invocation found the device the first one created
C7_Witness ==
    \E p \in DOMAIN proc :
        /\ Done(p, "Maybe") /\ proc[p].vlanId = 5 /\ proc[p].err = Nil
        /\ proc[p].prev.again /\ proc[p].calls = <<>>
        /\ LinkNamed(kern, "vlan5") \in VlansOf(kern, drv.vlanParentIndex, 5)
        /\ drv.DeviceIndex = LinkNamed(kern, "vlan5").Index
        /\ proc[p].prev.DeviceIndex = LinkNamed(kern, "vlan5").Index

\* C9: whenever CreateBridgeAndVlanDevice(tag), tag # 0, returns a name without
\* error on a driver whose Init resolved the parent, a VLAN sub-interface with
\* that tag on the driver's parent exists, its master is a bridge of the
\* returned name, and that bridge is up; the devices the call creates are
\* named vlan<tag> and docker<tag>.
C9_ProvisionedPostcondition ==
    \A p \in DOMAIN proc :
        (/\ Done(p, "Create") /\ proc[p].vlanId # 0 /\ proc[p].err = Nil
         /\ drv.vlanParentIndex # 0) =>
            /\ \E v \in VlansOf(kern, drv.vlanParentIndex, proc[p].vlanId) :
                   \E b \in Links(kern) :
                       /\ b.Index = v.MasterIndex /\ b.Type = "bridge"
                       /\ b.Name = proc[p].name /\ b.Up
            /\ \A i \in 1..Len(proc[p].calls) :
                   proc[p].calls[i].op = "LinkAdd" =>
                       /\ proc[p].calls[i].arg \in {Sprintf(VlanPrefix, proc[p].vlanId),
                                                     Sprintf(BridgePrefix, proc[p].vlanId)}
                       /\ proc[p].name = Sprintf(BridgePrefix, proc[p].vlanId)

\* C10: VLAN tag 0 never causes device creation or mutation: no step of
\* CreateBridgeAndVlanDevice(0) or MaybeCreateVlanDevice(0) changes the kernel
\* or the driver's DeviceIndex and vlanParentIndex or issues a call, and
\* CreateBridgeAndVlanDevice(0) returns the default bridge name, or the empty
\* string in pure mode.
C10_TagZeroTouchesNothing ==
    [][\A p \in DOMAIN proc :
          (/\ proc'[p] # proc[p]
           /\ proc'[p].op \in {"Create", "Maybe"} /\ proc'[p].vlanId = 0) =>
              /\ kern' = kern /\ drv' = drv
              /\ proc'[p].calls = <<>>
              /\ proc'[p].pc = "done" =>
                    /\ proc'[p].err = Nil
                    /\ (proc'[p].op = "Create" =>
                           proc'[p].name = IF conf.Switch = "pure" THEN ""
                                           ELSE conf.DefaultBridgeName)]_vars

\* CreateBridgeAndVlanDevice(0) returned the default bridge name on a host
\* where an earlier call had provisioned devices
C10_Witness ==
    \E p \in DOMAIN proc :
        /\ Done(p, "Create") /\ proc[p].vlanId = 0 /\ proc[p].err = Nil
        /\ proc[p].name = DefaultBridge
        /\ conf.Switch # "pure"
        /\ LinkNamed(kern, "docker5") # NilLink

\* the link the driver's DeviceIndex names in kernel k
DeviceOf(k, d) == IF d.DeviceIndex \in 1..Len(k.links) THEN k.links[d.DeviceIndex] ELSE NilLink

\* C14: the VLAN sub-interface that obtain-or-create adopts or returns for a
\* tag has the requested tag and the driver's parent index, also when a link
\* named vlan<tag> exists with another tag, another parent or another kind.
C14_AdoptedDeviceMatches ==
    \A p \in DOMAIN proc :
        (/\ proc[p].pc = "done" /\ proc[p].op \in {"Create", "Maybe"}
         /\ proc[p].vlanId # 0 /\ proc[p].err = Nil
         /\ drv.vlanParentIndex # 0) =>
            /\ DeviceOf(kern, drv).Type = "vlan"
            /\ DeviceOf(kern, drv).VlanId = proc[p].vlanId
            /\ DeviceOf(kern, drv).ParentIndex = drv.vlanParentIndex

\* C20 as stated: for every tag other than 0 the name a successful
\* CreateBridgeAndVlanDevice(tag) returns is BridgeNameForVlan(tag), also when
\* the VLAN sub-interface was enslaved to a bridge before the call.
C20_ReturnedNameIsDerivedName ==
    \A p \in DOMAIN proc :
        (Done(p, "Create") /\ proc[p].vlanId # 0 /\ proc[p].err = Nil) =>
            proc[p].name = BridgeNameForVlan(conf, proc[p].vlanId)

\* C20, amended: the name a successful CreateBridgeAndVlanDevice(tag), tag
\* other than 0, returns is the name of the bridge the VLAN sub-interface it
\* obtained was enslaved to before the call, and BridgeNameForVlan(tag) when
\* the sub-interface had no master of kind bridge.
C20_ReturnedNameIsMasterOrDerived ==
    \A p \in DOMAIN proc :
        (Done(p, "Create") /\ proc[p].vlanId # 0 /\ proc[p].err = Nil) =>
            LET k0 == proc[p].k0
                v == DeviceOf(k0, drv)
                hadBridge == /\ v.MasterIndex \in 1..Len(k0.links)
                             /\ k0.links[v.MasterIndex].Type = "bridge"
            IN  proc[p].name = IF hadBridge THEN k0.links[v.MasterIndex].Name
                               ELSE BridgeNameForVlan(conf, proc[p].vlanId)

\* a call found the user's eth1.5 in the user's bridge br5 and returned br5,
\* which is not the name derived from the tag
C20_Witness ==
    \E p \in DOMAIN proc :
        /\ Done(p, "Create") /\ proc[p].vlanId = 5 /\ proc[p].err = Nil
        /\ proc[p].name # BridgeNameForVlan(conf, 5)
        /\ DeviceOf(kern, drv).Name = "eth1.5"
        /\ DeviceOf(kern, drv).MasterIndex = LinkNamed(kern, proc[p].name).Index
        /\ LinkNamed(kern, proc[p].name).Type = "bridge"
        /\ LinkNamed(kern, BridgeNameForVlan(conf, 5)) = NilLink


(***************************************************************************)
(* Properties of concurrent callers (SpecConc).                            *)
(***************************************************************************)
\* caller p is between Lock and Unlock
Locked(p) ==
    /\ proc[p].op \in {"Create", "Maybe"} /\ proc[p].vlanId # 0
    /\ proc[p].pc \notin {"idle", "Lock", "done"}
Returned(p, op, t) == Done(p, op) /\ proc[p].vlanId = t

\* the callers call CreateBridgeAndVlanDevice or MaybeCreateVlanDevice only
Provisioning == \A p \in Procs : proc[p].op # "Init"

\* C5: the obtain-or-create, enslave and bring-up sequences of concurrent
\* callers of CreateBridgeAndVlanDevice and MaybeCreateVlanDevice never
\* interleave; no call fails for another reason than a call the environment
\* failed (none because the other caller created a device); and when the
\* callers call these two operations only, at most one VLAN sub-interface and
\* one bridge exist per tag, exactly one of each once a
\* CreateBridgeAndVlanDevice for the tag has returned a name, and all calls
\* for a tag return the same bridge name.
C5_Serialized ==
    /\ \A p, q \in Procs : (Locked(p) /\ Locked(q)) => p = q
    /\ \A p \in Procs : Locked(p) => mutex = p
    /\ \A p \in Procs : proc[p].op \in {"Create", "Maybe"} => proc[p].cause \in {Nil, EIO}
    /\ Provisioning => \A t \in VlanIds \ {0} :
          /\ Cardinality(VlansOf(kern, drv.vlanParentIndex, t)) <= 1
          /\ Cardinality({l \in Links(kern) : l.Name = Sprintf(conf.BridgeNamePrefix, t)}) <= 1
          /\ \A p \in Procs :
                (Returned(p, "Create", t) /\ proc[p].err = Nil) =>
                    /\ Cardinality(VlansOf(kern, drv.vlanParentIndex, t)) = 1
                    /\ Cardinality(BridgesOf(kern, drv.vlanParentIndex, t)) = 1
                    /\ \A q \in Procs :
                          (Returned(q, "Create", t) /\ proc[q].err = Nil) =>
                              proc[q].name = proc[p].name

\* every caller has returned from CreateBridgeAndVlanDevice(5) with the name
\* docker5, on a host that started without vlan5 and docker5; the second to
\* take the lock issued no call
C5_Witness ==
    /\ \A p \in Procs : Returned(p, "Create", 5) /\ proc[p].err = Nil /\ proc[p].name = "docker5"
    /\ \E p, q \in Procs :
          /\ Issued(proc[p].calls, "LinkAdd") /\ proc[q].calls = <<>>
          /\ LinkNamed(proc[q].k0, "vlan5") = NilLink
    /\ VlansOf(kern, drv.vlanParentIndex, 5) = {LinkNamed(kern, "vlan5")}
    /\ BridgesOf(kern, drv.vlanParentIndex, 5) = {LinkNamed(kern, "docker5")}


(***************************************************************************)
(* Properties of BridgeNameForVlan (SpecNames).                            *)
(***************************************************************************)
DecimalDigits == <<"0", "1", "2", "3", "4", "5", "6", "7", "8", "9">>
RECURSIVE Decimal(_)
\* the decimal notation of a natural number
Decimal(n) ==
    IF n < 10 THEN DecimalDigits[n + 1]
    ELSE Decimal(n \div 10) \o DecimalDigits[(n % 10) + 1]

\* C11: BridgeNameForVlan(tag) is the empty string when tag = 0 and the mode
\* is pure, the default bridge name when tag = 0 and the mode is not pure, the
\* bridge name prefix followed by the decimal tag for every other tag in any
\* mode, the mode and the names being those of the configuration when it
\* returns (for tag 0: provided no LoadConf has replaced the configuration
\* since the function read the mode); and no step of it changes anything.
C11_BridgeNameReference ==
    [][\A p \in DOMAIN proc :
          (proc'[p] # proc[p] /\ proc'[p].op = "BridgeName") =>
              /\ proc'[p].err = Nil /\ proc'[p].calls = <<>>
              /\ kern' = kern /\ drv' = drv /\ conf' = conf
              /\ proc'[p].pc = "done" =>
                    CASE proc'[p].vlanId # 0 ->
                            proc'[p].name = conf.BridgeNamePrefix \o Decimal(proc'[p].vlanId)
                      [] proc'[p].vlanId = 0 /\ proc[p].seen \subseteq {conf} ->
                            proc'[p].name = IF conf.Switch = "pure" THEN ""
                                            ELSE conf.DefaultBridgeName
                      [] OTHER -> TRUE]_vars

\* the name for the largest tag was computed in pure mode with a configured
\* prefix, after LoadConf had been called again
C11_Witness ==
    \E p \in DOMAIN proc :
        /\ Done(p, "BridgeName") /\ proc[p].vlanId = 65535
        /\ conf.Switch = "pure" /\ conf.BridgeNamePrefix = "br"
        /\ proc[p].name = "br65535"
====
